---- MODULE Spec2Model ----
(***************************************************************************)
(* Model of the outfit decision engine of ai-fashion-consultant:           *)
(* PlannerAgent.generate_outfit (anchor selection, worn-today filter,      *)
(* fast-fail generation call, response parser, item resolver, procedural   *)
(* fallback assembler) driven through FashionAgentOrchestrator             *)
(* (generate_daily_outfit / confirm_outfit_choice over the outfits table)  *)
(* and through PlannerAgent.get_daily_outfit.                              *)
(* The tools are also modelled called on their own (ResolverSpec for      *)
(* _resolve_item_images, ColorSpec for ColorMatcher.validate_combination,  *)
(* StyleSpec for GenderStyleRules.validate_outfit), and the ingestion      *)
(* pipeline PerceptionAgent.analyze_wardrobe_batch -> analyze_garment ->   *)
(* ImageTagger.tag_garment in IngestSpec.                                  *)
(*                                                                         *)
(* Scores are integers in hundredths (0.5 is 50).  Text is a sequence of   *)
(* lower-case word tokens; numbers inside text are digit tokens.           *)
(***************************************************************************)
EXTENDS Integers, Sequences, FiniteSets, TLC

VARIABLES
    wardrobe,       \* wardrobe_items table, as returned by get_all_items
    outfits,        \* outfits table: rows [outfit_json, worn_date]
    pc,             \* position of the current request
    caller,         \* who entered generate_outfit: "orchestrator" | "direct" | "none"
    worn_today,     \* context['worn_today'] of the current request
    anchor_item,    \* local anchor_item of generate_outfit
    allow_repeats,  \* local allow_repeats of generate_outfit
    prompt,         \* what the composed prompt carries
    attempt,        \* loop index of the generation loop
    requests,       \* requests served so far
    calls,          \* generate_content calls made in the current request
    slept,          \* seconds slept by time.sleep in the current request
    response,       \* local response of generate_outfit
    error,          \* class of the exception the generation loop caught
    fb_anchor,      \* anchor argument handed to _generate_fallback_outfit
    route,          \* how the current request left the AI path
    result,         \* value returned by generate_outfit / generate_daily_outfit
    \* the tools, called on their own
    tool,           \* the tool function that has returned, "none" before a call
    dict_arg,       \* argument outfit_dict of _resolve_item_images
    resolved,       \* value returned by _resolve_item_images
    colors,         \* argument colors of ColorMatcher.validate_combination
    combination,    \* value returned by validate_combination
    outfit_arg,     \* argument outfit of GenderStyleRules.validate_outfit
    gender,         \* argument gender of validate_outfit
    validation,     \* value returned by validate_outfit
    \* the ingestion pipeline
    batch_pc,       \* position of analyze_wardrobe_batch
    image_paths,    \* argument image_paths of analyze_wardrobe_batch
    results,        \* local results of analyze_wardrobe_batch
    successful,     \* local successful of analyze_wardrobe_batch
    failed,         \* local failed of analyze_wardrobe_batch
    batch_slept,    \* seconds slept by analyze_wardrobe_batch
    summary,        \* value returned by analyze_wardrobe_batch
    tag_attempt,    \* loop index attempt of tag_garment
    tag_calls,      \* generate_content calls made by the current tag_garment
    tag_failures,   \* attempts of the current tag_garment that raised
    tag_slept,      \* sleeps of the current tag_garment, in order
    tag_error,      \* str(e) of the last exception tag_garment caught
    tags,           \* value returned by tag_garment
    \* the loop agent
    clock,          \* the wall clock, in ticks
    tasks,          \* LoopAgent.tasks
    running,        \* LoopAgent.running
    loop_pc,        \* position of start_loop
    current_time,   \* local current_time of start_loop
    task_index,     \* position of the for loop over the tasks
    executed,       \* the calls of the callbacks, in order
    loop_run,       \* calls of start_loop so far
    \* the session service
    sessions,       \* SessionService.sessions: session_id -> session
    created,        \* sessions created so far
    session_result, \* value returned by the last call of the service
    \* the personalization agent
    memory,         \* PersonalizationAgent.memory
    pref_result     \* value returned by update_preferences / get_preferences

plannerVars == <<wardrobe, outfits, pc, caller, worn_today, anchor_item, allow_repeats,
                 prompt, attempt, requests, calls, slept, response, error, fb_anchor,
                 route, result>>

toolVars == <<tool, dict_arg, resolved, colors, combination, outfit_arg, gender,
              validation>>

ingestVars == <<batch_pc, image_paths, results, successful, failed, batch_slept,
                summary, tag_attempt, tag_calls, tag_failures, tag_slept, tag_error,
                tags>>

loopVars == <<clock, tasks, running, loop_pc, current_time, task_index, executed,
              loop_run>>

sessionVars == <<sessions, created, session_result>>

prefVars == <<memory, pref_result>>

serviceVars == <<loopVars, sessionVars, prefVars>>

\* everything but the loop agent
engineVars == <<plannerVars, toolVars, ingestVars, sessionVars, prefVars>>

\* the loop agent but its clock
loopState == <<tasks, running, loop_pc, current_time, task_index, executed, loop_run>>

vars == <<plannerVars, toolVars, ingestVars, serviceVars>>

-----------------------------------------------------------------------------
(* Bounds of the model *)

MaxItems == 3
MaxRequests == 2
MaxAIKeys == 1

-----------------------------------------------------------------------------
(* Values *)

Slots == {"top", "bottom", "shoes", "dress", "outerwear", "accessories"}

Nil == [kind |-> "none", id |-> 0, garment_type |-> "", color |-> <<>>, text |-> <<>>]

Item(i, t, c) == [kind |-> "item", id |-> i, garment_type |-> t, color |-> c, text |-> <<>>]

Text(d) == [kind |-> "text", id |-> 0, garment_type |-> "", color |-> <<>>, text |-> d]

\* Python truthiness of a slot value: None and a missing key are falsy
Truthy(v) == v.kind # "none"

EmptyOutfit == [s \in Slots |-> Nil]

\* The garments a wardrobe of the model is drawn from
Catalogue ==
    << Item(1, "shirt", <<"blue">>),
       Item(2, "t-shirt", <<"white">>),
       Item(3, "jeans", <<"navy", "blue">>),
       Item(4, "sneakers", <<"white">>),
       Item(5, "heels", <<"red">>),
       Item(6, "dress", <<"black">>),
       Item(7, "jacket", <<"brown">>) >>

SeqToSet(s) == {s[i] : i \in 1..Len(s)}

\* the catalogue rows whose index is in S, in catalogue order
Pick(S) == SelectSeq(Catalogue, LAMBDA it : it.id \in S)

Wardrobes == {Pick(S) : S \in {T \in SUBSET (1..Len(Catalogue)) : Cardinality(T) <= MaxItems}}

IdsOf(w) == {w[i].id : i \in 1..Len(w)}

-----------------------------------------------------------------------------
(* Category buckets of _generate_fallback_outfit *)

TopTypes == {"top", "shirt", "t-shirt", "blouse", "sweater"}
BottomTypes == {"bottom", "pants", "jeans", "skirt", "shorts"}
ShoeTypes == {"shoes", "sneakers", "boots", "heels"}
DressTypes == {"dress", "gown", "jumpsuit"}
OuterwearTypes == {"outerwear", "jacket", "coat", "blazer"}
\* the shoe types the anchor placement recognises (no "heels")
AnchorShoeTypes == {"shoes", "sneakers", "boots"}

Bucket(w, types) == {w[i] : i \in {j \in 1..Len(w) : w[j].garment_type \in types}}

-----------------------------------------------------------------------------
(* Constraint filter and anchor selection, generate_outfit lines 70-93 *)

\* the parts of a worn outfit whose ids are collected
WornParts == {"top", "bottom", "shoes", "dress"}

\* isinstance(item, dict) and item.get('id')
WornIds(worn) ==
    {worn[k][p].id : k \in 1..Len(worn), p \in WornParts} \ {0}

ValidItems(w, worn) == SelectSeq(w, LAMBDA it : it.id \notin WornIds(worn))

\* the (anchor_item, allow_repeats) pairs random.choice can produce
AnchorChoices(w, worn) ==
    IF Len(w) = 0
    THEN {<<Nil, FALSE>>}
    ELSE IF Len(ValidItems(w, worn)) > 0
         THEN {<<a, FALSE>> : a \in SeqToSet(ValidItems(w, worn))}
         ELSE {<<a, TRUE>> : a \in SeqToSet(w)}

\* what the composed prompt says: the anchor it mandates (0: none) and
\* whether the "do not repeat" restriction is appended (lines 112-127)
ComposePrompt(anchor, repeats, worn) ==
    [anchor |-> IF Truthy(anchor) THEN anchor.id ELSE 0,
     restriction |-> (~repeats) /\ Len(worn) > 0]

-----------------------------------------------------------------------------
(* Procedural fallback assembler, _generate_fallback_outfit lines 209-251 *)

IsDress(v) == v.garment_type \in DressTypes

\* PlaceAnchor with the bottom branch writing the top slot
PlaceAnchorSwapped(anchor) ==
    IF ~Truthy(anchor) THEN EmptyOutfit
    ELSE IF anchor.garment_type \in DressTypes
         THEN [EmptyOutfit EXCEPT !["top"] = anchor, !["bottom"] = Nil]
    ELSE IF anchor.garment_type \in TopTypes
         THEN [EmptyOutfit EXCEPT !["top"] = anchor]
    ELSE IF anchor.garment_type \in BottomTypes
         THEN [EmptyOutfit EXCEPT !["top"] = anchor]
    ELSE IF anchor.garment_type \in AnchorShoeTypes
         THEN [EmptyOutfit EXCEPT !["shoes"] = anchor]
    ELSE EmptyOutfit

\* lines 219-229: use anchor if provided
PlaceAnchor(anchor) ==
    IF ~Truthy(anchor) THEN EmptyOutfit
    ELSE IF anchor.garment_type \in DressTypes
         THEN [EmptyOutfit EXCEPT !["top"] = anchor, !["bottom"] = Nil]
    ELSE IF anchor.garment_type \in TopTypes
         THEN [EmptyOutfit EXCEPT !["top"] = anchor]
    ELSE IF anchor.garment_type \in BottomTypes
         THEN [EmptyOutfit EXCEPT !["bottom"] = anchor]
    ELSE IF anchor.garment_type \in AnchorShoeTypes
         THEN [EmptyOutfit EXCEPT !["shoes"] = anchor]
    ELSE EmptyOutfit

\* lines 232-237: neither top nor bottom filled
FillBoth(o, w) ==
    IF Truthy(o["top"]) \/ Truthy(o["bottom"]) THEN {o}
    ELSE LET dresses == Bucket(w, DressTypes)
             tops == Bucket(w, TopTypes)
             bottoms == Bucket(w, BottomTypes)
             withTop == IF tops = {} THEN {o}
                        ELSE {[o EXCEPT !["top"] = t] : t \in tops}
             separates == IF bottoms = {} THEN withTop
                          ELSE {[x EXCEPT !["bottom"] = b] : x \in withTop, b \in bottoms}
         IN  {[o EXCEPT !["top"] = d] : d \in dresses} \cup separates

\* FillBottom without the is_dress test
FillBottomAnyTop(o, w) ==
    IF Truthy(o["top"]) /\ ~Truthy(o["bottom"])
       /\ Bucket(w, BottomTypes) # {}
    THEN {[o EXCEPT !["bottom"] = b] : b \in Bucket(w, BottomTypes)}
    ELSE {o}

\* lines 239-242: top without bottom
FillBottom(o, w) ==
    IF Truthy(o["top"]) /\ ~Truthy(o["bottom"])
       /\ ~IsDress(o["top"]) /\ Bucket(w, BottomTypes) # {}
    THEN {[o EXCEPT !["bottom"] = b] : b \in Bucket(w, BottomTypes)}
    ELSE {o}

\* FillTop with the step left out
FillTopSkipped(o, w) == {o}

\* lines 244-245: bottom without top
FillTop(o, w) ==
    IF Truthy(o["bottom"]) /\ ~Truthy(o["top"]) /\ Bucket(w, TopTypes) # {}
    THEN {[o EXCEPT !["top"] = t] : t \in Bucket(w, TopTypes)}
    ELSE {o}

\* FillShoes with the step left out
FillShoesSkipped(o, w) == {o}

\* lines 247-248
FillShoes(o, w) ==
    IF ~Truthy(o["shoes"]) /\ Bucket(w, ShoeTypes) # {}
    THEN {[o EXCEPT !["shoes"] = s] : s \in Bucket(w, ShoeTypes)}
    ELSE {o}

\* lines 250-251: outerwear on a dice roll
AddOuterwear(o, w) ==
    {o} \cup {[o EXCEPT !["outerwear"] = x] : x \in Bucket(w, OuterwearTypes)}

\* every outfit the assembler can build for this wardrobe and anchor
FallbackOutfits(w, anchor) ==
    LET s1 == FillBoth(PlaceAnchor(anchor), w)
        s2 == UNION {FillBottom(o, w) : o \in s1}
        s3 == UNION {FillTop(o, w) : o \in s2}
        s4 == UNION {FillShoes(o, w) : o \in s3}
    IN  UNION {AddOuterwear(o, w) : o \in s4}

Disclaimer == "AI Services are currently busy"

\* the dict returned at line 202
EmptyWardrobeResult ==
    [success |-> FALSE, keys |-> {"success", "message", "outfit"},
     outfit |-> EmptyOutfit, reasoning |-> "", confidence_score |-> 0,
     message |-> "No wardrobe items available"]

\* the dict returned at lines 253-263
FallbackResult(o) ==
    [success |-> TRUE,
     keys |-> {"success", "agent", "outfit", "reasoning", "confidence_score",
               "color_analysis", "weather", "styling_tips", "message"},
     outfit |-> o, reasoning |-> Disclaimer, confidence_score |-> 50,
     message |-> "Outfit generated (Fallback Mode)"]

\* FallbackResults giving up when it is handed no anchor
FallbackResultsNeedAnchor(w, anchor) ==
    IF Len(w) = 0 \/ ~Truthy(anchor) THEN {EmptyWardrobeResult}
    ELSE {FallbackResult(o) : o \in FallbackOutfits(w, anchor)}

\* the results _generate_fallback_outfit can return
FallbackResults(w, anchor) ==
    IF Len(w) = 0 THEN {EmptyWardrobeResult}
    ELSE {FallbackResult(o) : o \in FallbackOutfits(w, anchor)}

-----------------------------------------------------------------------------
(* Item resolver, _resolve_item_images lines 326-360 *)

\* digit tokens of the ids of the wardrobes: DigitTok[n] is the text of id n
DigitTok == <<"1", "2", "3", "4", "5", "6", "7", "8">>

IsNumber(tok) == \E n \in 1..Len(DigitTok) : DigitTok[n] = tok

ToInt(tok) == CHOOSE n \in 1..Len(DigitTok) : DigitTok[n] = tok

\* str.lower() of a word: the words of the model that have upper-case letters
Lower(tok) ==
    CASE tok = "Item" -> "item"
      [] tok = "Blue" -> "blue"
      [] tok = "Scarf" -> "scarf"
      [] tok = "Navy" -> "navy"
      [] tok = "Female" -> "female"
      [] OTHER -> tok

\* desc_lower = str(description).lower()
DescLower(desc) == [i \in 1..Len(desc) |-> Lower(desc[i])]

\* word pairs <<a, b>> with a a proper substring of b
ProperSubstrings ==
    {<<"shirt", "t-shirt">>, <<"green", "dark green">>, <<"tea", "teal">>}

SubstringOf(a, b) == a = b \/ <<a, b>> \in ProperSubstrings

\* "word in desc_lower"
Occurs(word, desc) == \E i \in 1..Len(desc) : SubstringOf(word, desc[i])

\* positions where (?:item|id)\s*#?\s*(\d+) matches
IdMatchAt(desc, i) ==
    /\ desc[i] \in {"item", "id"}
    /\ \/ (i + 1 <= Len(desc) /\ IsNumber(desc[i + 1]))
       \/ (i + 2 <= Len(desc) /\ desc[i + 1] = "#" /\ IsNumber(desc[i + 2]))

\* re.search: the number of the leftmost match, 0 when there is none
TargetId(desc) ==
    LET hits == {i \in 1..Len(desc) : IdMatchAt(desc, i)}
    IN  IF hits = {} THEN 0
        ELSE LET i == CHOOSE h \in hits : \A g \in hits : h <= g
             IN  IF IsNumber(desc[i + 1]) THEN ToInt(desc[i + 1]) ELSE ToInt(desc[i + 2])

\* "for item in wardrobe: if ...: match = item; break": the first of the
\* rows at the positions hits, Nil when there is none
FirstAt(w, hits) ==
    IF hits = {} THEN Nil
    ELSE w[CHOOSE h \in hits : \A g \in hits : h <= g]

\* 1. exact id match (lines 337-343)
IdMatch(desc, w) ==
    IF TargetId(desc) = 0 THEN Nil
    ELSE FirstAt(w, {i \in 1..Len(w) : w[i].id = TargetId(desc)})

\* TypeAndColorMatch without the color test
TypeMatchOnly(it, desc) == Occurs(Lower(it.garment_type), desc)

\* type_match and color_match of lines 348-352
TypeAndColorMatch(it, desc) ==
    /\ Occurs(Lower(it.garment_type), desc)
    /\ (Len(it.color) = 0
          \/ \E k \in 1..Len(it.color) : Occurs(Lower(it.color[k]), desc))

\* 2. color + type match (lines 346-356)
HeuristicMatch(desc, w) ==
    FirstAt(w, {i \in 1..Len(w) : TypeAndColorMatch(w[i], desc)})

\* ResolveOne trying the color + type match before the id match
ResolveOneHeuristicFirst(desc, w) ==
    LET desc_lower == DescLower(desc)
    IN  IF Truthy(HeuristicMatch(desc_lower, w)) THEN HeuristicMatch(desc_lower, w)
        ELSE IF Truthy(IdMatch(desc_lower, w)) THEN IdMatch(desc_lower, w)
        ELSE Text(desc)

\* one pass of the loop of lines 329-358: match, or the description itself
ResolveOne(desc, w) ==
    LET desc_lower == DescLower(desc)
    IN  IF Truthy(IdMatch(desc_lower, w)) THEN IdMatch(desc_lower, w)
        ELSE IF Truthy(HeuristicMatch(desc_lower, w)) THEN HeuristicMatch(desc_lower, w)
        ELSE Text(desc)

\* outfit_dict: keys present and their descriptions (<<>> is null);
\* a category with a falsy description is skipped
ResolveItemImages(outfit_dict, w) ==
    [s \in Slots |->
        IF s \in outfit_dict.keys /\ Len(outfit_dict.desc[s]) > 0
        THEN ResolveOne(outfit_dict.desc[s], w)
        ELSE Nil]

-----------------------------------------------------------------------------
(* Responses of the generation service and the response parser *)

NoDesc == [s \in Slots |-> <<>>]

NoMapping == [keys |-> {}, desc |-> NoDesc]

\* descriptions the service may give for one category
Descriptions(w) ==
    {<<"item", "#", DigitTok[i]>> : i \in IdsOf(w)}
        \cup {<<"blue", "t-shirt">>, <<"silk", "scarf">>}

\* the categories of the JSON structure the system prompt asks for
PromptCategories == {"top", "bottom", "shoes", "outerwear", "accessories"}

\* outfit mappings with at most MaxAIKeys keys; a key may carry null
AIMappings(w) ==
    UNION { {[keys |-> K,
              desc |-> [s \in Slots |-> IF s \in K THEN d[s] ELSE <<>>]]
             : d \in [K -> Descriptions(w) \cup {<<>>}]}
          : K \in {L \in SUBSET PromptCategories : Cardinality(L) <= MaxAIKeys} }

\* what a response text is made of: are there braces, does the substring
\* between the first "{" and the last "}" decode, and to which object
\* (the object carries a reasoning and no confidence_score).
\* outfit: "mapping" (data.outfit), "missing" (no outfit key),
\* "scalar" (a non-empty value that is no mapping)
TextOf(open, close, decodes, outfit, mapping) ==
    [has_open |-> open, has_close |-> close, decodes |-> decodes,
     outfit |-> outfit, mapping |-> mapping, raises |-> "JSONDecodeError"]

\* a brace-delimited text on which json.loads raises an error that is no
\* JSONDecodeError: a number of more than 4300 digits (ValueError) or
\* brackets nested deeper than the recursion limit (RecursionError)
OverlongText ==
    [TextOf(TRUE, TRUE, FALSE, "missing", NoMapping) EXCEPT !.raises = "ValueError"]

Texts(w) ==
    {TextOf(FALSE, FALSE, FALSE, "missing", NoMapping),
     TextOf(TRUE, FALSE, FALSE, "missing", NoMapping),
     TextOf(TRUE, TRUE, FALSE, "missing", NoMapping),
     TextOf(TRUE, TRUE, TRUE, "missing", NoMapping),
     TextOf(TRUE, TRUE, TRUE, "scalar", NoMapping),
     OverlongText}
    \cup {TextOf(TRUE, TRUE, TRUE, "mapping", m) : m \in AIMappings(w)}

NoText == TextOf(FALSE, FALSE, FALSE, "missing", NoMapping)

\* response: None, or an object whose .text is readable or raises
NoResponse == [kind |-> "none", text |-> NoText]

Responses(w) ==
    {[kind |-> "blocked", text |-> NoText]}
        \cup {[kind |-> "text", text |-> t] : t \in Texts(w)}

\* the default object of lines 290 and 294
DefaultOutfitData ==
    [outfit |-> "mapping", mapping |-> NoMapping, reasoning |-> "raw text",
     has_score |-> TRUE]

\* _parse_outfit_response lines 279-294; an error of json.loads that
\* line 292 does not catch leaves the function (outfit |-> "raised")
ParseOutfitResponse(text) ==
    IF text.has_open /\ text.has_close
    THEN IF text.decodes
         THEN [outfit |-> text.outfit, mapping |-> text.mapping,
               reasoning |-> "ai reasoning", has_score |-> FALSE]
         ELSE IF text.raises = "JSONDecodeError"
              THEN DefaultOutfitData
              ELSE [outfit |-> "raised", mapping |-> NoMapping,
                    reasoning |-> text.raises, has_score |-> FALSE]
    ELSE DefaultOutfitData

\* not outfit_data.get('outfit')
OutfitFalsy(data) ==
    data.outfit = "missing" \/ (data.outfit = "mapping" /\ data.mapping.keys = {})

\* the dict built at lines 175-188
AIResult(data, w) ==
    [success |-> TRUE,
     keys |-> {"success", "agent", "outfit", "reasoning", "confidence_score",
               "validation", "color_analysis", "weather", "occasion",
               "alternatives", "styling_tips", "message"},
     outfit |-> ResolveItemImages(data.mapping, w),
     reasoning |-> data.reasoning,
     confidence_score |-> IF data.has_score THEN 0 ELSE 80,
     message |-> "Outfit generated successfully"]

-----------------------------------------------------------------------------
(* The requests *)

\* for attempt in range(2)
GenAttempts == 2

\* get_outfits_worn_today: the outfit_json of the rows worn today
WornToday(rows) ==
    LET worn == SelectSeq(rows, LAMBDA r : r.worn)
    IN  [k \in 1..Len(worn) |-> worn[k].outfit_json]

NoResult ==
    [success |-> FALSE, keys |-> {}, outfit |-> EmptyOutfit, reasoning |-> "",
     confidence_score |-> 0, message |-> ""]

NoPrompt == [anchor |-> 0, restriction |-> FALSE]

\* the locals of a request, before and after it
Cleared ==
    /\ caller' = "none"
    /\ worn_today' = <<>>
    /\ anchor_item' = Nil
    /\ allow_repeats' = FALSE
    /\ prompt' = NoPrompt
    /\ attempt' = 0
    /\ calls' = 0
    /\ slept' = 0
    /\ response' = NoResponse
    /\ error' = "none"
    /\ fb_anchor' = Nil
    /\ route' = "none"
    /\ result' = NoResult

\* no tool function has been called
NoCombination == [valid |-> FALSE, score |-> 0, reasoning |-> "none"]

NoOutfitArg == [present |-> {}, accessories |-> 0]

NoValidation == [valid |-> FALSE, score |-> 0, issues |-> {}, missing |-> {}]

ToolsIdle ==
    /\ tool = "none"
    /\ dict_arg = NoMapping
    /\ resolved = EmptyOutfit
    /\ colors = <<>>
    /\ combination = NoCombination
    /\ outfit_arg = NoOutfitArg
    /\ gender = ""
    /\ validation = NoValidation

\* no tags: tag_garment has not returned
NoTags ==
    [kind |-> "none", garment_type |-> "", color |-> "", formality |-> "",
     season |-> <<>>, image_path |-> "", tagged_by |-> "", error |-> <<>>]

NoSummary ==
    [success |-> FALSE, keys |-> {}, total_analyzed |-> 0, successful |-> 0,
     failed |-> 0, results |-> <<>>]

\* the ingestion pipeline is not running
IngestIdle ==
    /\ batch_pc = "idle"
    /\ image_paths = <<>>
    /\ results = <<>>
    /\ successful = 0
    /\ failed = 0
    /\ batch_slept = 0
    /\ summary = NoSummary
    /\ tag_attempt = 0
    /\ tag_calls = 0
    /\ tag_failures = 0
    /\ tag_slept = <<>>
    /\ tag_error = <<>>
    /\ tags = NoTags

\* datetime.now() at tick 0 of day 0
Midnight == [date |-> 0, hour |-> 0, minute |-> 0, tick |-> 0]

\* the loop agent after construction
LoopIdle ==
    /\ clock = 0
    /\ tasks = <<>>
    /\ running = FALSE
    /\ loop_pc = "stopped"
    /\ current_time = Midnight
    /\ task_index = 0
    /\ executed = <<>>
    /\ loop_run = 0

NoSessionResult == [op |-> "none", id |-> 0, success |-> FALSE, message |-> ""]

\* the session service after construction
SessionIdle ==
    /\ sessions = <<>>
    /\ created = 0
    /\ session_result = NoSessionResult

\* the preferences get_preferences reports while the memory holds none
\* (lines 109-116)
DefaultPreferences ==
    [favorite_colors |-> <<>>, disliked_colors |-> <<>>, preferred_styles |-> <<>>,
     avoided_patterns |-> <<>>, successful_combinations |-> 0, feedback_count |-> 0]

NoPrefResult == [op |-> "none", success |-> FALSE, preferences |-> DefaultPreferences]

\* the personalization agent after construction: self.memory = {}
PrefsIdle ==
    /\ memory = [has_preferences |-> FALSE, preferences |-> DefaultPreferences]
    /\ pref_result = NoPrefResult

ServicesIdle == LoopIdle /\ SessionIdle /\ PrefsIdle

\* no outfit request is running and none has been served
PlannerIdle ==
    /\ outfits = <<>>
    /\ pc = "idle"
    /\ caller = "none"
    /\ worn_today = <<>>
    /\ anchor_item = Nil
    /\ allow_repeats = FALSE
    /\ prompt = NoPrompt
    /\ attempt = 0
    /\ requests = 0
    /\ calls = 0
    /\ slept = 0
    /\ response = NoResponse
    /\ error = "none"
    /\ fb_anchor = Nil
    /\ route = "none"
    /\ result = NoResult

Init ==
    /\ wardrobe \in Wardrobes
    /\ outfits = <<>>
    /\ pc = "idle"
    /\ caller = "none"
    /\ worn_today = <<>>
    /\ anchor_item = Nil
    /\ allow_repeats = FALSE
    /\ prompt = NoPrompt
    /\ attempt = 0
    /\ requests = 0
    /\ calls = 0
    /\ slept = 0
    /\ response = NoResponse
    /\ error = "none"
    /\ fb_anchor = Nil
    /\ route = "none"
    /\ result = NoResult
    /\ ToolsIdle
    /\ IngestIdle
    /\ ServicesIdle

\* FashionAgentOrchestrator.generate_daily_outfit lines 108-139: retrieval,
\* the empty-inventory return, context assembly, the call of the planner
GenerateDailyOutfit ==
    /\ pc = "idle"
    /\ requests < MaxRequests
    /\ requests' = requests + 1
    /\ IF Len(wardrobe) = 0
       THEN /\ pc' = "returned"
            /\ caller' = "orchestrator"
            /\ result' = [NoResult EXCEPT !.keys = {"success", "message"},
                                          !.message = "No wardrobe items available"]
            /\ UNCHANGED <<worn_today>>
       ELSE /\ pc' = "select"
            /\ caller' = "orchestrator"
            /\ worn_today' = WornToday(outfits)
            /\ UNCHANGED <<result>>
    /\ UNCHANGED <<error, wardrobe, outfits, anchor_item, allow_repeats, prompt, attempt,
                   calls, slept, response, fb_anchor, route>>
    /\ UNCHANGED <<toolVars, ingestVars, serviceVars>>

\* PlannerAgent.get_daily_outfit lines 304-314: a context without worn_today
GetDailyOutfit ==
    /\ pc = "idle"
    /\ requests < MaxRequests
    /\ requests' = requests + 1
    /\ pc' = "select"
    /\ caller' = "direct"
    /\ worn_today' = <<>>
    /\ UNCHANGED <<error, wardrobe, outfits, anchor_item, allow_repeats, prompt, attempt,
                   calls, slept, response, fb_anchor, route, result>>
    /\ UNCHANGED <<toolVars, ingestVars, serviceVars>>

\* generate_outfit lines 52-127: filter, anchor, prompt
SelectAnchor ==
    /\ pc = "select"
    /\ \E ch \in AnchorChoices(wardrobe, worn_today) :
          /\ anchor_item' = ch[1]
          /\ allow_repeats' = ch[2]
          /\ prompt' = ComposePrompt(ch[1], ch[2], worn_today)
    /\ pc' = "generate"
    /\ UNCHANGED <<error, requests, wardrobe, outfits, caller, worn_today, attempt, calls, slept,
                   response, fb_anchor, route, result>>
    /\ UNCHANGED <<toolVars, ingestVars, serviceVars>>

\* BreakOnError retrying every error that is no quota error
BreakOnQuotaOnly(e) == e = "quota"

\* the except clause of the generation loop (lines 140-147): does the loop
\* break on this error?  "quota": the message has "429" or "quota"
BreakOnError(e) == IF e = "quota" THEN TRUE ELSE TRUE

\* seconds slept after a failed attempt: the loop has no sleep
BackoffDelay(e) == 0

\* generate_outfit lines 136-147: one pass of the generation loop
Attempt ==
    /\ pc = "generate"
    /\ attempt < GenAttempts
    /\ calls' = calls + 1
    /\ \/ \E r \in Responses(wardrobe) :
             /\ response' = r
             /\ pc' = "respond"
             /\ UNCHANGED <<attempt, slept, error>>
       \/ \E e \in {"quota", "other"} :
             /\ error' = e
             /\ slept' = slept + BackoffDelay(e)
             /\ IF BreakOnError(e)
                THEN pc' = "respond" /\ UNCHANGED attempt
                ELSE /\ attempt' = attempt + 1
                     /\ pc' = IF attempt + 1 < GenAttempts THEN "generate" ELSE "respond"
             /\ UNCHANGED response
    /\ UNCHANGED <<requests, wardrobe, outfits, caller, worn_today, anchor_item, allow_repeats,
                   prompt, fb_anchor, route, result>>
    /\ UNCHANGED <<toolVars, ingestVars, serviceVars>>

\* RouteOf without the check of the parsed outfit mapping (line 158)
RouteOfNoEmptyCheck(resp) ==
    IF resp.kind = "none" THEN "no_result"
    ELSE IF resp.kind = "blocked" THEN "exception"
    ELSE IF ParseOutfitResponse(resp.text).outfit # "mapping" THEN "exception"
    ELSE "ai"

\* where generate_outfit goes once the loop is left (lines 150-196):
\* "ai", or a route into the fallback assembler
RouteOf(resp) ==
    IF resp.kind = "none" THEN "no_result"
    ELSE IF resp.kind = "blocked" THEN "exception"
    ELSE IF OutfitFalsy(ParseOutfitResponse(resp.text)) THEN "empty_outfit"
    ELSE IF ParseOutfitResponse(resp.text).outfit # "mapping" THEN "exception"
    ELSE "ai"

\* the anchor handed to the assembler on a route (lines 152, 159, 196)
FallbackAnchor(r, anchor) == IF r = "exception" THEN Nil ELSE anchor

\* the wardrobe list when the slots are filled by taking the items out of it
WardrobeAfterTaking(w, o) ==
    SelectSeq(w, LAMBDA it : \A s \in Slots : o[s] # it)

\* the wardrobe list once outfit o has been built from it: the buckets
\* and valid_items are new lists (comprehensions), random.choice and the
\* resolver's loops read the list, and the slots hold the item objects
\* themselves, which nothing assigns into
WardrobeAfter(w, o) == w

\* generate_outfit lines 150-196 up to the return or the fallback call
HandleResponse ==
    /\ pc = "respond"
    /\ route' = RouteOf(response)
    /\ IF RouteOf(response) = "ai"
       THEN /\ result' = AIResult(ParseOutfitResponse(response.text), wardrobe)
            /\ wardrobe' = WardrobeAfter(wardrobe, result'.outfit)
            /\ pc' = "return"
            /\ UNCHANGED fb_anchor
       ELSE /\ fb_anchor' = FallbackAnchor(RouteOf(response), anchor_item)
            /\ pc' = "fallback"
            /\ UNCHANGED <<result, wardrobe>>
    /\ UNCHANGED <<error, requests, outfits, caller, worn_today, anchor_item, allow_repeats,
                   prompt, attempt, calls, slept, response>>
    /\ UNCHANGED <<toolVars, ingestVars, serviceVars>>

\* generate_content calls made by _generate_fallback_outfit: none
FallbackCalls == 0

\* _generate_fallback_outfit lines 198-263
Fallback ==
    /\ pc = "fallback"
    /\ result' \in FallbackResults(wardrobe, fb_anchor)
    /\ wardrobe' = WardrobeAfter(wardrobe, result'.outfit)
    /\ calls' = calls + FallbackCalls
    /\ pc' = "return"
    /\ UNCHANGED <<error, requests, outfits, caller, worn_today, anchor_item, allow_repeats,
                   prompt, attempt, slept, response, fb_anchor, route>>
    /\ UNCHANGED <<toolVars, ingestVars, serviceVars>>

\* save_generated_outfit that stores nothing
SaveGeneratedOutfitSkipped(rows, o) == rows

\* save_generated_outfit -> save_outfit: json.dumps of the outfit into a
\* new row with no worn_date
SaveGeneratedOutfit(rows, o) ==
    Append(rows, [outfit_json |-> o, worn |-> FALSE])

\* what generate_daily_outfit returns for the planner's result r
\* (lines 141-142 and 159-171)
DailyOutfitResult(r) ==
    IF ~r.success
    THEN [NoResult EXCEPT !.keys = {"success", "message"},
                          !.message = "Failed to generate outfit"]
    ELSE [r EXCEPT !.keys = {"success", "orchestrator", "outfit", "outfit_id",
                             "reasoning", "confidence_score", "color_analysis",
                             "weather", "styling_tips", "alternatives", "message"},
                   !.message = "Daily outfit generated successfully"]

\* orchestrator lines 141-171: the failure return, or save_generated_outfit
\* and the success return
PersistOutfit ==
    /\ pc = "return"
    /\ caller = "orchestrator"
    /\ IF result.success
       THEN outfits' = SaveGeneratedOutfit(outfits, result.outfit)
       ELSE UNCHANGED outfits
    /\ result' = DailyOutfitResult(result)
    /\ pc' = "returned"
    /\ UNCHANGED <<error, requests, wardrobe, caller, worn_today, anchor_item, allow_repeats, prompt,
                   attempt, calls, slept, response, fb_anchor, route>>
    /\ UNCHANGED <<toolVars, ingestVars, serviceVars>>

\* get_daily_outfit hands the planner's result to its caller
ReturnDirect ==
    /\ pc = "return"
    /\ caller = "direct"
    /\ pc' = "returned"
    /\ UNCHANGED <<error, requests, wardrobe, outfits, caller, worn_today, anchor_item, allow_repeats,
                   prompt, attempt, calls, slept, response, fb_anchor, route, result>>
    /\ UNCHANGED <<toolVars, ingestVars, serviceVars>>

\* the request is over: its locals are gone
Finish ==
    /\ pc = "returned"
    /\ pc' = "idle"
    /\ Cleared
    /\ UNCHANGED <<wardrobe, outfits, requests>>
    /\ UNCHANGED <<toolVars, ingestVars, serviceVars>>

\* confirm_outfit_choice -> mark_outfit_as_worn: UPDATE ... WHERE id = outfit_id
ConfirmOutfitChoice ==
    /\ pc = "idle"
    /\ \E k \in 1..Len(outfits) :
          /\ ~outfits[k].worn
          /\ outfits' = [outfits EXCEPT ![k].worn = TRUE]
    /\ UNCHANGED <<error, requests, wardrobe, pc, caller, worn_today, anchor_item, allow_repeats,
                   prompt, attempt, calls, slept, response, fb_anchor, route, result>>
    /\ UNCHANGED <<toolVars, ingestVars, serviceVars>>

Next ==
    \/ GenerateDailyOutfit
    \/ GetDailyOutfit
    \/ SelectAnchor
    \/ Attempt
    \/ HandleResponse
    \/ Fallback
    \/ PersistOutfit
    \/ ReturnDirect
    \/ Finish
    \/ ConfirmOutfitChoice

Spec == Init /\ [][Next]_vars

-----------------------------------------------------------------------------
(* Properties of generate_outfit *)

FallbackRoutes == {"no_result", "empty_outfit", "exception"}

\* generate_outfit is about to return
Returning == pc = "return"

\* ids of the items referenced in any category of any worn-today outfit
AllWornIds(worn) == {worn[k][s].id : k \in 1..Len(worn), s \in Slots} \ {0}

ItemsOf(o) == {o[s] : s \in {t \in Slots : o[t].kind = "item"}}

\* C1: for a non-empty wardrobe generate_outfit returns success=true on
\* every behaviour of the generation service (response, quota error, other
\* error, unreadable or unparsable text, empty or missing outfit mapping)
C1_NonEmptyWardrobeSucceeds ==
    (Returning /\ Len(wardrobe) > 0) =>
        (result.success /\ "success" \in result.keys)

C1_Witness ==
    /\ Returning /\ Len(wardrobe) > 0
    /\ route = "exception" /\ result.success

\* C2: for an empty wardrobe generate_outfit returns success=false
\* whatever the generation service answers
C2_EmptyWardrobeFails ==
    (Returning /\ Len(wardrobe) = 0) => ~result.success

\* C3 as stated: every successful outfit for a non-empty wardrobe has a
\* top-class or dress-class item in its top slot
C3_TopCoverage ==
    (Returning /\ Len(wardrobe) > 0 /\ result.success) =>
        /\ result.outfit["top"].kind = "item"
        /\ result.outfit["top"].garment_type \in TopTypes \cup DressTypes

\* C3 as amended: every outfit the fallback assembler builds for a wardrobe
\* with at least one tops-bucket item has a top-class or dress-class item
\* of the wardrobe in its top slot
C3_FallbackTopCoverage ==
    (Returning /\ route \in FallbackRoutes /\ Bucket(wardrobe, TopTypes) # {}) =>
        /\ result.success
        /\ result.outfit["top"] \in SeqToSet(wardrobe)
        /\ result.outfit["top"].garment_type \in TopTypes \cup DressTypes

C3_Witness ==
    /\ Returning /\ route = "no_result"
    /\ anchor_item.garment_type \in BottomTypes
    /\ result.outfit["bottom"] = anchor_item
    /\ result.outfit["top"].garment_type \in TopTypes

\* C4: outside repeats-allowed mode the anchor is never an item referenced
\* in any category of a worn-today outfit
C4_AnchorNotWornToday ==
    (Truthy(anchor_item) /\ ~allow_repeats) =>
        anchor_item.id \notin AllWornIds(worn_today)

\* C5: when the items referenced by the worn-today outfits cover the whole
\* non-empty wardrobe, the request runs in repeats-allowed mode, with no
\* "do not repeat" restriction in the prompt, and returns success=true
C5_ExhaustionAllowsRepeats ==
    (/\ pc \in {"generate", "respond", "fallback", "return"}
     /\ Len(wardrobe) > 0
     /\ IdsOf(wardrobe) \subseteq AllWornIds(worn_today)) =>
        /\ allow_repeats
        /\ anchor_item \in SeqToSet(wardrobe)
        /\ ~prompt.restriction
        /\ (Returning => result.success)

\* C6: outside repeats-allowed mode the returned outfit holds no wardrobe
\* item referenced in an outfit worn today
C6_NoRepeatOfWornItems ==
    (Returning /\ result.success /\ ~allow_repeats) =>
        \A v \in ItemsOf(result.outfit) : v.id \notin AllWornIds(worn_today)

\* the result is the one the fallback assembler builds
IsFallbackResult ==
    /\ result.message # "Outfit generated successfully"
    /\ IF Len(wardrobe) > 0
       THEN /\ result.success
            /\ result.confidence_score = 50
            /\ result.reasoning = Disclaimer
       ELSE ~result.success

IsAIResult == result.message = "Outfit generated successfully"

\* the generation call produced a readable response whose parsed outfit
\* is a non-empty mapping
UsableResponse ==
    /\ response.kind = "text"
    /\ ParseOutfitResponse(response.text).outfit = "mapping"
    /\ ParseOutfitResponse(response.text).mapping.keys # {}

C7_Routing ==
    Returning =>
        /\ IsAIResult => UsableResponse
        /\ ~UsableResponse => IsFallbackResult

C7_NoCallInFallback ==
    pc \in {"fallback", "return"} => calls' = calls

\* C7: the AI result is returned only for a response with a non-empty
\* parsed outfit mapping; with no result, an empty parsed outfit or an
\* upstream exception the result is the fallback assembler's (confidence
\* 0.5 and the disclaimer when the wardrobe is non-empty), and no generation
\* call is made during or after the fallback assembly
C7_FallbackWheneverNoUsableResponse ==
    [](C7_Routing) /\ [][C7_NoCallInFallback]_vars

C7_Witness ==
    /\ Returning /\ route = "empty_outfit"
    /\ response.kind = "text"
    /\ result.confidence_score = 50 /\ result.reasoning = Disclaimer

\* C8: when the generation call fails, with a quota error or any other
\* error, the loop is left after that one attempt, nothing is slept, and
\* the request goes on with "no result" (the no_result route, not the
\* exception handler)
C8_FastFail ==
    (pc \in {"respond", "fallback", "return"} /\ error # "none") =>
        /\ calls = 1
        /\ attempt < GenAttempts
        /\ slept = 0
        /\ response = NoResponse
        /\ (pc # "respond" => route = "no_result")

C8_Witness ==
    /\ Returning /\ error = "other" /\ calls = 1 /\ route = "no_result"

\* the garment types a slot of a fallback outfit may hold
AllowedTypes(slot) ==
    IF slot = "top" THEN TopTypes \cup DressTypes
    ELSE IF slot = "bottom" THEN BottomTypes
    ELSE IF slot = "shoes" THEN ShoeTypes
    ELSE IF slot = "outerwear" THEN OuterwearTypes
    ELSE {}

\* C9: every filled slot of a fallback outfit holds an item of the input
\* wardrobe whose garment_type is in the slot's bucket
C9_FallbackSlotsFromBuckets ==
    (Returning /\ route \in FallbackRoutes /\ result.success) =>
        \A s \in Slots :
            Truthy(result.outfit[s]) =>
                /\ result.outfit[s] \in SeqToSet(wardrobe)
                /\ result.outfit[s].id \in IdsOf(wardrobe)
                /\ result.outfit[s].garment_type \in AllowedTypes(s)

C9_Witness ==
    /\ Returning /\ route \in FallbackRoutes
    /\ anchor_item.garment_type \in BottomTypes
    /\ Truthy(result.outfit["top"])
    /\ Truthy(result.outfit["bottom"])
    /\ Truthy(result.outfit["shoes"])

\* the slot matching an item's garment_type bucket
MatchingSlots(v) == {s \in Slots : v.garment_type \in AllowedTypes(s)}

\* C10: a fallback outfit of a request with an anchor holds that anchor,
\* in the slot matching its garment_type bucket, on every route into the
\* fallback
C10_FallbackKeepsAnchor ==
    (Returning /\ route \in FallbackRoutes /\ Truthy(anchor_item)) =>
        \E s \in MatchingSlots(anchor_item) : result.outfit[s] = anchor_item

-----------------------------------------------------------------------------
(* The tools called on their own: _resolve_item_images,                    *)
(* ColorMatcher.validate_combination, GenderStyleRules.validate_outfit     *)

\* the rows a wardrobe list handed to the resolver is made of: the
\* catalogue and a row with a capitalised garment_type and no color
ResolverCatalogue == Catalogue \o << Item(8, "Scarf", <<>>) >>

\* lists of at most MaxItems distinct rows, in any order
ResolverWardrobes ==
    {w \in UNION {[1..n -> SeqToSet(ResolverCatalogue)] : n \in 0..MaxItems} :
        \A i, j \in 1..Len(w) : i # j => w[i] # w[j]}

\* descriptions with one id reference
OneReference ==
    UNION {{<<"Item", "#", DigitTok[n]>>,
            <<"id", DigitTok[n]>>,
            <<"item", DigitTok[n], "Blue", "shirt">>} : n \in 1..Len(DigitTok)}

\* descriptions with two id references
TwoReferences ==
    {<<"item", "#", DigitTok[a], "or", "item", "#", DigitTok[b]>> :
        a, b \in 1..Len(DigitTok)}

\* descriptions with no id reference
NoReference ==
    {<<"Blue", "t-shirt">>, <<"navy", "jeans">>, <<"red", "jeans">>,
     <<"white", "sneakers">>, <<"silk", "scarf">>, <<"jacket">>,
     <<"size", "5", "heels">>, <<"#", "6">>}

ResolverDescriptions == OneReference \cup TwoReferences \cup NoReference

\* descriptions of the mappings with two categories
PairDescriptions ==
    {<<"Item", "#", DigitTok[n]>> : n \in 1..MaxItems}
        \cup {<<"Blue", "t-shirt">>, <<"jacket">>}

\* outfit mappings with a top and a bottom
TwoCategoryArgs ==
    {[keys |-> {"top", "bottom"},
      desc |-> [s \in Slots |-> IF s = "top" THEN d1
                                ELSE IF s = "bottom" THEN d2 ELSE <<>>]] :
        d1, d2 \in PairDescriptions}

\* the outfit mappings handed to the resolver: one category, whose
\* description may be null, or two categories
ResolveArgs ==
    {[keys |-> {c}, desc |-> [s \in Slots |-> IF s = c THEN d ELSE <<>>]] :
        c \in {"top", "accessories"}, d \in ResolverDescriptions \cup {<<>>}}
      \cup TwoCategoryArgs

\* a call of _resolve_item_images (lines 326-360)
ResolveItemImagesCall ==
    /\ tool = "none"
    /\ \E d \in ResolveArgs :
          /\ dict_arg' = d
          /\ resolved' = ResolveItemImages(d, wardrobe)
    /\ tool' = "_resolve_item_images"
    /\ UNCHANGED <<colors, combination, outfit_arg, gender, validation>>
    /\ UNCHANGED <<plannerVars, ingestVars, serviceVars>>

\* the caller has the value: the arguments and the value are gone
ToolReturn ==
    /\ tool # "none"
    /\ tool' = "none"
    /\ dict_arg' = NoMapping
    /\ resolved' = EmptyOutfit
    /\ colors' = <<>>
    /\ combination' = NoCombination
    /\ outfit_arg' = NoOutfitArg
    /\ gender' = ""
    /\ validation' = NoValidation
    /\ UNCHANGED <<plannerVars, ingestVars, serviceVars>>

ResolverInit ==
    /\ wardrobe \in ResolverWardrobes
    /\ PlannerIdle
    /\ ToolsIdle
    /\ IngestIdle
    /\ ServicesIdle

ResolverNext ==
    \/ ResolveItemImagesCall
    \/ ToolReturn

ResolverSpec == ResolverInit /\ [][ResolverNext]_vars

-----------------------------------------------------------------------------
(* Properties of the item resolver *)

Resolved == tool = "_resolve_item_images"

\* the categories of the resolver's argument that carry a description
Described == {c \in dict_arg.keys : Len(dict_arg.desc[c]) > 0}

\* positions of the id references of a description, and the id each names
RefPositions(desc) == {i \in 1..Len(desc) : IdMatchAt(DescLower(desc), i)}

RefIdAt(desc, i) ==
    IF IsNumber(desc[i + 1]) THEN ToInt(desc[i + 1]) ELSE ToInt(desc[i + 2])

FirstRef(desc) == CHOOSE i \in RefPositions(desc) : \A j \in RefPositions(desc) : i <= j

\* the wardrobe rows the color + type heuristic accepts for a description
HeuristicRows(desc, w) ==
    {it \in SeqToSet(w) :
        /\ Occurs(Lower(it.garment_type), DescLower(desc))
        /\ (it.color = <<>>
              \/ \E k \in 1..Len(it.color) : Occurs(Lower(it.color[k]), DescLower(desc)))}

\* C11 as stated: a category whose description contains an id reference,
\* anywhere in it, to an id of the wardrobe resolves to the row with that id
C11_AnyReferenceResolves ==
    Resolved =>
        \A c \in Described : \A i \in RefPositions(dict_arg.desc[c]) :
            RefIdAt(dict_arg.desc[c], i) \in IdsOf(wardrobe) =>
                /\ resolved[c] \in SeqToSet(wardrobe)
                /\ resolved[c].id = RefIdAt(dict_arg.desc[c], i)

\* C11 as amended: a category whose description's first (leftmost) id
\* reference names an id of the wardrobe resolves to the row with that id,
\* whatever the row's color and garment_type and whichever rows, earlier
\* or later in the list, the color + type heuristic accepts
C11_FirstReferenceResolves ==
    Resolved =>
        \A c \in Described :
            (/\ RefPositions(dict_arg.desc[c]) # {}
             /\ RefIdAt(dict_arg.desc[c], FirstRef(dict_arg.desc[c])) \in IdsOf(wardrobe)) =>
                /\ resolved[c] \in SeqToSet(wardrobe)
                /\ resolved[c].id = RefIdAt(dict_arg.desc[c], FirstRef(dict_arg.desc[c]))

\* an id reference wins over a heuristic row that comes earlier in the list
C11_Witness ==
    /\ Resolved
    /\ \E c \in Described :
          /\ RefPositions(dict_arg.desc[c]) # {}
          /\ resolved[c] \in SeqToSet(wardrobe)
          /\ resolved[c].id = RefIdAt(dict_arg.desc[c], FirstRef(dict_arg.desc[c]))
          /\ resolved[c] \notin HeuristicRows(dict_arg.desc[c], wardrobe)
          /\ wardrobe[1] \in HeuristicRows(dict_arg.desc[c], wardrobe)

\* C12: a category whose description has no id reference to an id of the
\* wardrobe resolves to a row the color + type heuristic accepts when there
\* is one, and to the description itself, unchanged, when there is none
C12_HeuristicOrPassThrough ==
    Resolved =>
        \A c \in Described :
            (\A i \in RefPositions(dict_arg.desc[c]) :
                RefIdAt(dict_arg.desc[c], i) \notin IdsOf(wardrobe)) =>
                IF HeuristicRows(dict_arg.desc[c], wardrobe) # {}
                THEN resolved[c] \in HeuristicRows(dict_arg.desc[c], wardrobe)
                ELSE resolved[c] = Text(dict_arg.desc[c])

\* a row without color tokens is matched on its garment_type alone
C12_Witness ==
    /\ Resolved
    /\ \E c \in Described :
          /\ RefPositions(dict_arg.desc[c]) = {}
          /\ resolved[c] \in HeuristicRows(dict_arg.desc[c], wardrobe)
          /\ resolved[c].color = <<>>
          /\ Lower(resolved[c].garment_type) # resolved[c].garment_type

-----------------------------------------------------------------------------
(* ColorMatcher.validate_combination, color_matcher.py lines 15-82 *)

MaxColors == 3

\* COLOR_COMPLEMENTARY, settings.py lines 66-78
ColorComplementary ==
    [blue |-> {"orange", "yellow", "white", "beige"},
     red |-> {"green", "white", "black", "navy"},
     green |-> {"red", "brown", "beige", "white"},
     yellow |-> {"purple", "blue", "gray", "white"},
     purple |-> {"yellow", "green", "white", "gold"},
     orange |-> {"blue", "teal", "white", "brown"},
     pink |-> {"gray", "white", "navy", "green"},
     brown |-> {"cream", "beige", "white", "blue"},
     black |-> {"white", "red", "gold", "pink"},
     white |-> {"any"},
     gray |-> {"any"}]

\* line 36
Neutrals == {"white", "black", "gray", "grey", "beige", "cream", "navy", "brown"}

\* the color names a caller passes
ColorNames ==
    {"blue", "white", "red", "orange", "green", "dark green", "teal", "tea",
     "Navy", "magenta"}

ColorLists == UNION {[1..n -> ColorNames] : n \in 0..MaxColors}

\* line 61: any(comp in c for comp in complements)
Complements(c, complements) == \E comp \in complements : SubstringOf(comp, c)

\* Harmonious demanding more than half
HarmoniousStrict(matching, n) == 2 * matching > n

\* line 64: score >= 0.5, for score = matching / n
Harmonious(matching, n) == 2 * matching >= n

\* the dict validate_combination returns; the score in hundredths
ValidateCombination(cs) ==
    IF Len(cs) < 2
    THEN [valid |-> TRUE, score |-> 100, reasoning |-> "single or no colors"]
    ELSE LET lc == [i \in 1..Len(cs) |-> Lower(cs[i])]
             primary == lc[1]
             n == Len(lc) - 1
         IN  IF \E i \in 1..Len(lc) : lc[i] \in Neutrals
             THEN [valid |-> TRUE, score |-> 95, reasoning |-> "contains neutral"]
             ELSE IF primary \in DOMAIN ColorComplementary
             THEN IF "any" \in ColorComplementary[primary]
                  THEN [valid |-> TRUE, score |-> 100, reasoning |-> "works with any"]
                  ELSE LET matching ==
                               Cardinality({i \in 2..Len(lc) :
                                   Complements(lc[i], ColorComplementary[primary])})
                       IN  IF Harmonious(matching, n)
                           THEN [valid |-> TRUE, score |-> (matching * 100) \div n,
                                 reasoning |-> "complements"]
                           ELSE [valid |-> FALSE, score |-> (matching * 100) \div n,
                                 reasoning |-> "may clash"]
             ELSE [valid |-> TRUE, score |-> 70, reasoning |-> "not in database"]

\* a call of validate_combination
ValidateCombinationCall ==
    /\ tool = "none"
    /\ \E cs \in ColorLists :
          /\ colors' = cs
          /\ combination' = ValidateCombination(cs)
    /\ tool' = "validate_combination"
    /\ UNCHANGED <<dict_arg, resolved, outfit_arg, gender, validation>>
    /\ UNCHANGED <<plannerVars, ingestVars, serviceVars>>

ColorInit ==
    /\ wardrobe = <<>>
    /\ PlannerIdle
    /\ ToolsIdle
    /\ IngestIdle
    /\ ServicesIdle

ColorNext ==
    \/ ValidateCombinationCall
    \/ ToolReturn

ColorSpec == ColorInit /\ [][ColorNext]_vars

-----------------------------------------------------------------------------
(* Properties of validate_combination *)

ColorsValidated == tool = "validate_combination"

LowerColors == [i \in 1..Len(colors) |-> Lower(colors[i])]

HasNeutral == \E i \in 1..Len(colors) : LowerColors[i] \in Neutrals

\* the complement-table case: two or more colors, none neutral, and a
\* table for the primary color
TableCase ==
    /\ Len(colors) >= 2
    /\ ~HasNeutral
    /\ LowerColors[1] \in DOMAIN ColorComplementary

\* secondary colors that are a substring of a listed complement
SubstringsOfComplement ==
    {i \in 2..Len(colors) :
        \E comp \in ColorComplementary[LowerColors[1]] : SubstringOf(LowerColors[i], comp)}

\* secondary colors of which a listed complement is a substring
ContainingComplement ==
    {i \in 2..Len(colors) :
        \E comp \in ColorComplementary[LowerColors[1]] : SubstringOf(comp, LowerColors[i])}

\* valid exactly when at least half of the secondary colors are in S, with
\* the fraction as the score
HalfRule(S) ==
    /\ combination.valid <=> 2 * Cardinality(S) >= Len(colors) - 1
    /\ combination.score = (Cardinality(S) * 100) \div (Len(colors) - 1)

AutomaticCases ==
    /\ Len(colors) < 2 => (combination.valid /\ combination.score = 100)
    /\ HasNeutral => (combination.valid /\ combination.score >= 90)

\* C15 as stated: automatic validity for fewer than 2 colors and for a
\* neutral color; in the complement-table case valid exactly when at least
\* half of the secondary colors are a substring of a listed complement
C15_SecondaryInsideComplement ==
    ColorsValidated => (AutomaticCases /\ (TableCase => HalfRule(SubstringsOfComplement)))

\* C15 as amended: in the complement-table case valid exactly when a listed
\* complement is a substring of at least half of the secondary colors
C15_ComplementInsideSecondary ==
    ColorsValidated => (AutomaticCases /\ (TableCase => HalfRule(ContainingComplement)))

\* exactly half of the secondary colors match, one of them by properly
\* containing a complement
C15_Witness ==
    /\ ColorsValidated /\ TableCase
    /\ Len(colors) = 3
    /\ Cardinality(ContainingComplement) = 1
    /\ SubstringsOfComplement = {}
    /\ combination.valid /\ combination.score = 50

-----------------------------------------------------------------------------
(* GenderStyleRules.validate_outfit, gender_style_rules.py lines 89-144 *)

MaxAccessories == 6

\* self.rules, lines 12-46: required_categories and accessory_limits
StyleRules ==
    [male |-> [required_categories |-> <<"top", "bottom", "shoes">>,
               accessory_limits |-> 3],
     female |-> [required_categories |-> <<"top_or_dress", "bottom_optional", "shoes">>,
                 accessory_limits |-> 5],
     unisex |-> [required_categories |-> <<"top", "bottom", "shoes">>,
                 accessory_limits |-> 4]]

\* lines 100-104
RulesFor(g) ==
    IF Lower(g) \in DOMAIN StyleRules THEN StyleRules[Lower(g)] ELSE StyleRules["unisex"]

\* the gender profiles a caller passes
Genders == {"male", "female", "unisex", "Female", "nonbinary"}

\* outfits: the categories with a truthy value and the number of accessories
StyleOutfits ==
    [present : SUBSET {"top", "bottom", "shoes", "dress"},
     accessories : 0..MaxAccessories]

\* MissingEntry with a bottom demanded of a dress too
MissingEntryBottomAlways(o, category) ==
    IF category = "top_or_dress"
    THEN IF "top" \notin o.present /\ "dress" \notin o.present
         THEN {"top or dress"} ELSE {}
    ELSE IF category = "bottom_optional"
    THEN IF "bottom" \notin o.present
         THEN {"bottom (unless wearing dress)"} ELSE {}
    ELSE IF category \notin o.present THEN {category} ELSE {}

\* lines 110-119: what one required category adds to missing
MissingEntry(o, category) ==
    IF category = "top_or_dress"
    THEN IF "top" \notin o.present /\ "dress" \notin o.present
         THEN {"top or dress"} ELSE {}
    ELSE IF category = "bottom_optional"
    THEN IF "dress" \notin o.present /\ "bottom" \notin o.present
         THEN {"bottom (unless wearing dress)"} ELSE {}
    ELSE IF category \notin o.present THEN {category} ELSE {}

\* lines 108-119
Missing(o, g) ==
    LET required == RulesFor(g).required_categories
    IN  UNION {MissingEntry(o, required[k]) : k \in 1..Len(required)}

\* lines 122-144; the score in hundredths
ValidateOutfit(o, g) ==
    IF o.accessories > RulesFor(g).accessory_limits
    THEN [valid |-> FALSE, score |-> 60, issues |-> {"Too many accessories"},
          missing |-> Missing(o, g)]
    ELSE IF Missing(o, g) # {}
    THEN [valid |-> FALSE, score |-> 30, issues |-> {"Missing required items"},
          missing |-> Missing(o, g)]
    ELSE [valid |-> TRUE, score |-> 100, issues |-> {}, missing |-> {}]

\* a call of validate_outfit
ValidateOutfitCall ==
    /\ tool = "none"
    /\ \E o \in StyleOutfits, g \in Genders :
          /\ outfit_arg' = o
          /\ gender' = g
          /\ validation' = ValidateOutfit(o, g)
    /\ tool' = "validate_outfit"
    /\ UNCHANGED <<dict_arg, resolved, colors, combination>>
    /\ UNCHANGED <<plannerVars, ingestVars, serviceVars>>

StyleInit ==
    /\ wardrobe = <<>>
    /\ PlannerIdle
    /\ ToolsIdle
    /\ IngestIdle
    /\ ServicesIdle

StyleNext ==
    \/ ValidateOutfitCall
    \/ ToolReturn

StyleSpec == StyleInit /\ [][StyleNext]_vars

-----------------------------------------------------------------------------
(* Properties of validate_outfit *)

OutfitValidated == tool = "validate_outfit"

\* the profile whose rules apply: an unknown profile uses unisex
Profile ==
    IF Lower(gender) \in {"male", "female", "unisex"} THEN Lower(gender) ELSE "unisex"

Has(c) == c \in outfit_arg.present

\* a required category of the profile is missing from the outfit
RequiredMissing ==
    IF Profile = "female"
    THEN ~(Has("top") \/ Has("dress")) \/ ~(Has("bottom") \/ Has("dress")) \/ ~Has("shoes")
    ELSE ~Has("top") \/ ~Has("bottom") \/ ~Has("shoes")

Ceiling == IF Profile = "male" THEN 3 ELSE IF Profile = "female" THEN 5 ELSE 4

CeilingExceeded == outfit_arg.accessories > Ceiling

CompleteRule ==
    (validation.valid /\ validation.score = 100) <=> (~RequiredMissing /\ ~CeilingExceeded)

DressRule ==
    (Profile = "female" /\ Has("dress") /\ Has("shoes")) => ~RequiredMissing

\* C16 as stated: score 1.0 exactly for a complete outfit within the
\* ceiling, 0.3 whenever a required category is missing, 0.6 whenever the
\* ceiling is exceeded
C16_ScoresAsStated ==
    OutfitValidated =>
        /\ CompleteRule
        /\ RequiredMissing => (~validation.valid /\ validation.score = 30)
        /\ CeilingExceeded => (~validation.valid /\ validation.score = 60)
        /\ DressRule

\* C16 as amended: score 1.0 exactly for a complete outfit within the
\* ceiling, 0.6 whenever the ceiling is exceeded (a required category may be
\* missing as well), 0.3 when a required category is missing and the
\* ceiling is kept; a dress with shoes is complete for the female profile
C16_CeilingBeforeMissing ==
    OutfitValidated =>
        /\ CompleteRule
        /\ (RequiredMissing /\ ~CeilingExceeded) =>
              (~validation.valid /\ validation.score = 30)
        /\ CeilingExceeded => (~validation.valid /\ validation.score = 60)
        /\ (validation.missing # {}) <=> RequiredMissing
        /\ DressRule

\* a dress with shoes, no top and no bottom, validated for the female
\* profile given in capitals
C16_Witness ==
    /\ OutfitValidated
    /\ gender = "Female"
    /\ outfit_arg.present = {"dress", "shoes"}
    /\ validation.valid /\ validation.score = 100

-----------------------------------------------------------------------------
(* The ingestion pipeline: PerceptionAgent.analyze_wardrobe_batch,         *)
(* analyze_garment and ImageTagger.tag_garment                             *)

MaxImages == 2

\* settings.py line 47
MAX_RETRIES == 3

\* perception_agent.py line 89: time.sleep(2)
BatchDelay == 2

ImagePaths == {"a.jpg", "b.jpg"}

PathLists == UNION {[1..n -> ImagePaths] : n \in 0..MaxImages}

\* a dict of tags
Tags(type, color, formality, season, path, by, err) ==
    [kind |-> "tags", garment_type |-> type, color |-> color, formality |-> formality,
     season |-> season, image_path |-> path, tagged_by |-> by, error |-> err]

\* the objects the service's JSON may decode to: complete tags, tags with
\* garment_type "unknown", tags that name themselves a fallback, and {}
ParsedTags ==
    {Tags("shirt", "blue", "casual", <<"summer">>, "", "", <<>>),
     Tags("unknown", "red", "formal", <<"winter">>, "", "", <<>>),
     Tags("unknown", "unknown", "casual", <<"summer">>, "x.jpg", "fallback", <<"none">>),
     Tags("", "", "", <<>>, "", "", <<>>)}

\* how an attempt can raise: where (kind), with which str(e), and whether
\* generate_content had been called by then
Failure(kind, message, called) == [kind |-> kind, message |-> message, called |-> called]

Failures ==
    {Failure("unreadable", "cannot identify image file", FALSE),
     Failure("service", "429 quota exceeded", TRUE),
     Failure("service", "", TRUE),
     Failure("blocked", "response has no text", TRUE),
     Failure("unparsable", "Expecting value", TRUE),
     Failure("not_object", "does not support item assignment", TRUE)}

\* lines 62-63: add metadata
AddMetadata(parsed, path) ==
    [parsed EXCEPT !.image_path = path, !.tagged_by = "gemini-vision"]

\* FallbackTags with an empty season list
FallbackTagsNoSeason(path, err) ==
    Tags("unknown", "unknown", "casual", <<>>, path, "fallback", <<err>>)

\* _fallback_tags, lines 79-96
FallbackTags(path, err) ==
    Tags("unknown", "unknown", "casual", <<"spring", "summer", "fall", "winter">>,
         path, "fallback", <<err>>)

\* Caught for a handler of service errors alone
CaughtServiceOnly(f) == f.kind = "service"

\* line 68: except Exception
Caught(f) == f.kind \in {"unreadable", "service", "blocked", "unparsable", "not_object"}

\* IsLastAttempt giving up one attempt early
IsLastAttemptEarly(a) == a = MAX_RETRIES - 2

\* line 72
IsLastAttempt(a) == a = MAX_RETRIES - 1

\* Backoff starting at one second
BackoffFromOne(a) == 2 ^ a

\* line 77: 2 ** (attempt + 1)
Backoff(a) == 2 ^ (a + 1)

\* validate_garment_data, perception_agent.py lines 114-116
MissingFields(t) ==
    {f \in {"garment_type", "color", "formality"} : t[f] = ""}
        \cup (IF t.season = <<>> THEN {"season"} ELSE {})

ValidateGarmentData(t) == [valid |-> MissingFields(t) = {}, missing_fields |-> MissingFields(t)]


\* the image the batch loop is at
CurrentPath == image_paths[Len(results) + 1]

\* a call of analyze_wardrobe_batch, lines 67-71
AnalyzeWardrobeBatch ==
    /\ batch_pc = "idle"
    /\ image_paths' \in PathLists
    /\ results' = <<>>
    /\ successful' = 0
    /\ failed' = 0
    /\ batch_slept' = 0
    /\ batch_pc' = "loop"
    /\ UNCHANGED <<summary, tag_attempt, tag_calls, tag_failures, tag_slept, tag_error, tags>>
    /\ UNCHANGED <<plannerVars, toolVars, serviceVars>>

\* lines 73-74 and 31-35: the next path goes to analyze_garment, which
\* enters tag_garment
AnalyzeGarment ==
    /\ batch_pc = "loop"
    /\ Len(results) < Len(image_paths)
    /\ tag_attempt' = 0
    /\ tag_calls' = 0
    /\ tag_failures' = 0
    /\ tag_slept' = <<>>
    /\ tag_error' = <<>>
    /\ tags' = NoTags
    /\ batch_pc' = "tagging"
    /\ UNCHANGED <<image_paths, results, successful, failed, batch_slept, summary>>
    /\ UNCHANGED <<plannerVars, toolVars, serviceVars>>

\* tag_garment lines 35-77: one pass of the retry loop, or the end of the
\* function when range(MAX_RETRIES) is used up (it then returns None)
TagAttempt ==
    /\ batch_pc = "tagging"
    /\ IF tag_attempt >= MAX_RETRIES
       THEN /\ tags' = NoTags
            /\ batch_pc' = "tagged"
            /\ UNCHANGED <<tag_attempt, tag_calls, tag_failures, tag_slept, tag_error>>
       ELSE \/ \E parsed \in ParsedTags :
                 /\ tag_calls' = tag_calls + 1
                 /\ tags' = AddMetadata(parsed, CurrentPath)
                 /\ batch_pc' = "tagged"
                 /\ UNCHANGED <<tag_attempt, tag_failures, tag_slept, tag_error>>
            \/ \E f \in Failures :
                 /\ tag_calls' = tag_calls + (IF f.called THEN 1 ELSE 0)
                 /\ tag_failures' = tag_failures + 1
                 /\ IF ~Caught(f)
                    THEN /\ batch_pc' = "raised"
                         /\ UNCHANGED <<tag_attempt, tag_slept, tag_error, tags>>
                    ELSE /\ tag_error' = <<f.message>>
                         /\ IF IsLastAttempt(tag_attempt)
                            THEN /\ tags' = FallbackTags(CurrentPath, f.message)
                                 /\ batch_pc' = "tagged"
                                 /\ UNCHANGED <<tag_attempt, tag_slept>>
                            ELSE /\ tag_slept' = Append(tag_slept, Backoff(tag_attempt))
                                 /\ tag_attempt' = tag_attempt + 1
                                 /\ batch_pc' = "tagging"
                                 /\ UNCHANGED tags
    /\ UNCHANGED <<image_paths, results, successful, failed, batch_slept, summary>>
    /\ UNCHANGED <<plannerVars, toolVars, serviceVars>>

\* analyze_garment lines 37-55: the result it wraps the tags in; a raise
\* of tag_garment, or tags that are None, end in the except clause
GarmentResult ==
    IF batch_pc = "tagged" /\ tags.kind = "tags"
    THEN [success |-> TRUE, agent |-> "PerceptionAgent", data |-> tags]
    ELSE [success |-> FALSE, agent |-> "PerceptionAgent", data |-> NoTags]

\* CountsAsSuccessful counting an "unknown" garment as failed
CountsKnownOnly(r) == r.success /\ r.data.garment_type # "unknown"

\* lines 77-85
CountsAsSuccessful(r) == r.success

\* lines 74-89: the rest of one pass of the batch loop
CollectResult ==
    /\ batch_pc \in {"tagged", "raised"}
    /\ results' = Append(results, GarmentResult)
    /\ IF CountsAsSuccessful(GarmentResult)
       THEN successful' = successful + 1 /\ UNCHANGED failed
       ELSE failed' = failed + 1 /\ UNCHANGED successful
    /\ batch_slept' = batch_slept + BatchDelay
    /\ batch_pc' = "loop"
    /\ UNCHANGED <<image_paths, summary, tag_attempt, tag_calls, tag_failures, tag_slept,
                   tag_error, tags>>
    /\ UNCHANGED <<plannerVars, toolVars, serviceVars>>

\* lines 91-102
BatchReturn ==
    /\ batch_pc = "loop"
    /\ Len(results) >= Len(image_paths)
    /\ summary' = [success |-> TRUE,
                   keys |-> {"success", "agent", "total_analyzed", "successful", "failed",
                             "results", "message"},
                   total_analyzed |-> Len(image_paths), successful |-> successful,
                   failed |-> failed, results |-> results]
    /\ batch_pc' = "done"
    /\ UNCHANGED <<image_paths, results, successful, failed, batch_slept, tag_attempt,
                   tag_calls, tag_failures, tag_slept, tag_error, tags>>
    /\ UNCHANGED <<plannerVars, toolVars, serviceVars>>

IngestInit ==
    /\ wardrobe = <<>>
    /\ PlannerIdle
    /\ ToolsIdle
    /\ IngestIdle
    /\ ServicesIdle

IngestNext ==
    \/ AnalyzeWardrobeBatch
    \/ AnalyzeGarment
    \/ TagAttempt
    \/ CollectResult
    \/ BatchReturn

IngestSpec == IngestInit /\ [][IngestNext]_vars

\* the pipeline is sequential code: a step that can be taken is taken
IngestLiveSpec == IngestInit /\ [][IngestNext]_vars /\ WF_vars(IngestNext)

-----------------------------------------------------------------------------
(* Properties of the ingestion pipeline *)

\* tag_garment is running
Tagging == batch_pc = "tagging"

\* tag_garment has returned to analyze_garment
Tagged == batch_pc = "tagged"

\* tag_garment has raised into analyze_garment
Raised == batch_pc = "raised"

IsTagResult(t) == t.kind = "tags" /\ t.tagged_by \in {"gemini-vision", "fallback"}

\* C13: whatever fails in the attempts (unreadable image, service error,
\* unreadable or unparsable response), a running tag_garment returns, what
\* it returns is one TagResult for its image, tagged by the service or by
\* the fallback, and it never raises
C13_TagGarmentReturnsOneResult ==
    /\ Tagging ~> (Tagged /\ IsTagResult(tags))
    /\ [](Tagged => (IsTagResult(tags) /\ tags.image_path = CurrentPath))
    /\ [](~Raised)

\* a success after two failed attempts
C13_Witness ==
    /\ Tagged
    /\ tag_failures = 2
    /\ tags.tagged_by = "gemini-vision"

\* C14: after MAX_RETRIES failed attempts the returned record has
\* garment_type "unknown", tagged_by "fallback", a non-null error that is
\* the message of the last failed attempt, and passes the required-field
\* check of validate_garment_data
C14_FallbackRecordComplete ==
    (Tagged /\ tag_failures = MAX_RETRIES) =>
        /\ tags.garment_type = "unknown"
        /\ tags.tagged_by = "fallback"
        /\ tags.error # <<>>
        /\ tags.error = tag_error
        /\ tags.image_path = CurrentPath
        /\ ValidateGarmentData(tags).valid

\* the last failure had an empty message: the error is "", not null
C14_Witness ==
    /\ Tagged
    /\ tag_failures = MAX_RETRIES
    /\ tags.error = <<"">>
    /\ ValidateGarmentData(tags).valid

\* C18: the batch takes the images one at a time in input order and sleeps
\* the fixed delay after each; it returns one result per image, with
\* successful + failed = total_analyzed = number of images, a fallback
\* record counting as successful
C18_BatchOnePerImage ==
    /\ Len(results) <= Len(image_paths)
    /\ batch_slept = BatchDelay * Len(results)
    /\ \A k \in 1..Len(results) :
          /\ results[k].success => results[k].data.image_path = image_paths[k]
          /\ results[k].data.tagged_by = "fallback" => results[k].success
    /\ successful = Cardinality({k \in 1..Len(results) : results[k].success})
    /\ successful + failed = Len(results)
    /\ (Tagging \/ Tagged) => Len(results) < Len(image_paths)
    /\ batch_pc = "done" =>
          /\ summary.results = results
          /\ Len(summary.results) = Len(image_paths)
          /\ summary.total_analyzed = Len(image_paths)
          /\ summary.successful + summary.failed = summary.total_analyzed
          /\ summary.successful = successful

\* two images, the first ending in a fallback record
C18_Witness ==
    /\ batch_pc = "done"
    /\ Len(image_paths) = 2
    /\ image_paths[1] # image_paths[2]
    /\ summary.results[1].data.tagged_by = "fallback"
    /\ summary.results[2].data.tagged_by = "gemini-vision"
    /\ summary.successful = 2
    /\ batch_slept = 2 * BatchDelay

C20_AtReturn ==
    /\ tag_calls <= MAX_RETRIES
    /\ tag_calls <= tag_failures + 1
    /\ (Tagged /\ tags.tagged_by = "gemini-vision") =>
          (tag_failures = tag_attempt /\ tag_attempt < MAX_RETRIES)
    /\ (Tagged /\ tags.tagged_by = "fallback") => tag_failures = MAX_RETRIES
    /\ Tagged => tags.tagged_by \in {"gemini-vision", "fallback"}

C20_NoCallAfterReturn == Tagged => tag_calls' = tag_calls

\* C20: a successful attempt ends tag_garment at once, tagged_by being the
\* service name, every earlier attempt having failed, and no service call
\* follows the return; the calls per image never exceed MAX_RETRIES; a
\* fallback record is returned only after MAX_RETRIES failed attempts
C20_FirstSuccessReturns ==
    [](C20_AtReturn) /\ [][C20_NoCallAfterReturn]_vars

\* the first attempt could not read the image, the second one succeeded
C20_Witness ==
    /\ Tagged
    /\ tags.tagged_by = "gemini-vision"
    /\ tag_failures = 1
    /\ tag_calls = 1
    /\ tag_slept = <<2>>

-----------------------------------------------------------------------------
(* The fields of the planner's result and its validation stage *)

\* _validate_outfit, lines 296-298: the same dict for every outfit
ValidateOutfitStub(outfit_data, w, g) ==
    [valid |-> TRUE, score |-> 80, issues |-> {}, missing |-> {}]

\* _get_outfit_items, lines 300-302: wardrobe[:3]
GetOutfitItems(outfit_data, w) ==
    SubSeq(w, 1, IF Len(w) < 3 THEN Len(w) ELSE 3)

\* analyze_outfit_colors, color_matcher.py line 107: the colors of the
\* items handed over
ColorsUsed(items) == {items[k].color : k \in 1..Len(items)} \ {<<>>}

\* the validation attached to the result about to be returned: the stub's
\* on the AI path (line 169), none on the others
AttachedValidation ==
    IF route = "ai"
    THEN ValidateOutfitStub(ParseOutfitResponse(response.text), wardrobe, "unisex")
    ELSE NoValidation

\* the colors the attached color_analysis is about: those of wardrobe[:3]
\* on the AI path (lines 172-173), none in the fallback's fixed
\* {'suggestion': 'Manual fallback'} (line 259)
AnalysedColors ==
    IF route = "ai"
    THEN ColorsUsed(GetOutfitItems(ParseOutfitResponse(response.text), wardrobe))
    ELSE {}

\* C17: every result generate_outfit returns has a 'success' and an
\* 'agent' field, on the AI path, the fallback path and the empty-wardrobe
\* failure
C17_SuccessAndAgentFields ==
    Returning => {"success", "agent"} \subseteq result.keys

\* the outfit as validate_outfit sees it
OutfitForRules(o) ==
    [present |-> {c \in {"top", "bottom", "shoes", "dress"} : Truthy(o[c])},
     accessories |-> IF Truthy(o["accessories"]) THEN 1 ELSE 0]

\* the colors of the wardrobe items selected in an outfit
SelectedColors(o) == {v.color : v \in ItemsOf(o)} \ {<<>>}

\* C19: a returned outfit, from the AI path or the fallback, carries the
\* result of the structural check on its own categories and a color
\* analysis of the colors of the items selected in it
C19_BothChecksOnTheOutfit ==
    (Returning /\ result.success) =>
        /\ {"validation", "color_analysis"} \subseteq result.keys
        /\ \E g \in Genders :
              AttachedValidation = ValidateOutfit(OutfitForRules(result.outfit), g)
        /\ AnalysedColors = SelectedColors(result.outfit)

-----------------------------------------------------------------------------
(* Properties of the retry backoff *)

\* C21: the k-th failed attempt that is followed by another attempt is
\* followed by a sleep of 2^k seconds (2, 4, ...); nothing is slept after
\* a successful attempt or after the last failed attempt, so an image that
\* fails every attempt sleeps MAX_RETRIES - 1 times
C21_ExponentialBackoff ==
    (Tagging \/ Tagged) =>
        /\ \A k \in 1..Len(tag_slept) : tag_slept[k] = 2 ^ k
        /\ Len(tag_slept) =
              IF Tagged /\ tag_failures = MAX_RETRIES
              THEN MAX_RETRIES - 1
              ELSE tag_failures

\* every attempt failed: two sleeps, of 2 and 4 seconds
C21_Witness ==
    /\ Tagged
    /\ tag_failures = MAX_RETRIES
    /\ tags.tagged_by = "fallback"
    /\ tag_slept = <<2, 4>>

-----------------------------------------------------------------------------
(* Properties of the response parser *)

Parsed == pc \in {"fallback", "return", "returned"} /\ response.kind = "text"

\* C22: for every response text the parser returns an object and no
\* exception leaves it; a text without "{" or without "}", or whose
\* brace-delimited substring does not decode, gives the default object
C22_ParserNeverRaises ==
    Parsed =>
        /\ ParseOutfitResponse(response.text).outfit # "raised"
        /\ (~response.text.has_open \/ ~response.text.has_close
                \/ ~response.text.decodes)
              => ParseOutfitResponse(response.text) = DefaultOutfitData

-----------------------------------------------------------------------------
(* Properties of the assembled fallback outfit *)

FallbackReturned == Returning /\ route \in FallbackRoutes /\ result.success

\* C23: the assembler fills a slot only from a non-empty bucket and leaves
\* no fillable gap: a non-dress top with a non-empty bottoms bucket has a
\* bottom, a bottom with a non-empty tops bucket has a top, and a non-empty
\* shoes bucket gives shoes
C23_NoFillableGap ==
    FallbackReturned =>
        /\ \A s \in Slots :
              Truthy(result.outfit[s]) => Bucket(wardrobe, AllowedTypes(s)) # {}
        /\ (Truthy(result.outfit["top"]) /\ ~IsDress(result.outfit["top"])
                /\ Bucket(wardrobe, BottomTypes) # {})
              => Truthy(result.outfit["bottom"])
        /\ (Truthy(result.outfit["bottom"]) /\ Bucket(wardrobe, TopTypes) # {})
              => Truthy(result.outfit["top"])
        /\ Bucket(wardrobe, ShoeTypes) # {} => Truthy(result.outfit["shoes"])

\* a top anchor completed with a bottom and shoes
C23_Witness ==
    /\ FallbackReturned /\ route = "no_result"
    /\ anchor_item.garment_type \in TopTypes
    /\ result.outfit["top"] = anchor_item
    /\ result.outfit["bottom"].garment_type \in BottomTypes
    /\ result.outfit["shoes"].garment_type \in ShoeTypes

\* C24: a fallback outfit whose top slot holds a dress-class item, placed
\* as the anchor or chosen at random, has an empty bottom slot
C24_DressHasNoBottom ==
    (FallbackReturned /\ Truthy(result.outfit["top"])
        /\ IsDress(result.outfit["top"]))
      => ~Truthy(result.outfit["bottom"])

\* a dress chosen at random although the wardrobe holds a bottom
C24_Witness ==
    /\ FallbackReturned /\ ~Truthy(fb_anchor)
    /\ IsDress(result.outfit["top"])
    /\ Bucket(wardrobe, BottomTypes) # {}
    /\ ~Truthy(result.outfit["bottom"])

\* a dress placed as the anchor although the wardrobe holds a bottom
C24_AnchorWitness ==
    /\ FallbackReturned /\ Truthy(fb_anchor) /\ IsDress(fb_anchor)
    /\ result.outfit["top"] = fb_anchor
    /\ Bucket(wardrobe, BottomTypes) # {}
    /\ ~Truthy(result.outfit["bottom"])

-----------------------------------------------------------------------------
(* Properties of generate_daily_outfit *)

\* generate_daily_outfit returns in this step
DailyOutfitReturns == caller' = "orchestrator" /\ pc' = "returned" /\ pc # "returned"

-----------------------------------------------------------------------------
(* The wardrobe as a snapshot *)

\* C26: a request leaves the wardrobe list and every item of it as they
\* were: no step of generate_outfit (anchor selection, prompt, resolver,
\* fallback assembly) adds, removes, reorders or modifies an item
C26_WardrobeUnchanged ==
    [][(pc # "idle" \/ pc' # "idle") => wardrobe' = wardrobe]_vars

\* a fallback outfit built around the anchor out of a full wardrobe
C26_Witness ==
    /\ pc = "returned" /\ route \in FallbackRoutes
    /\ Len(wardrobe) = MaxItems
    /\ Truthy(anchor_item)
    /\ \E s \in Slots : result.outfit[s] = anchor_item
    /\ \E s \in Slots : Truthy(result.outfit[s]) /\ result.outfit[s] # anchor_item

\* an outfit of the generation service resolved to an item of the wardrobe
C26_ResolverWitness ==
    /\ pc = "returned" /\ route = "ai"
    /\ \E s \in Slots : result.outfit[s] \in SeqToSet(wardrobe)

-----------------------------------------------------------------------------
(* One item, one slot *)

\* no wardrobe item is held by two slots of outfit o
NoItemTwice(o) ==
    \A s, t \in Slots :
        (s # t /\ o[s].kind = "item") => o[s] # o[t]

\* C27: no wardrobe item occupies more than one slot of the outfit built
\* by the resolver from the parsed mapping, whatever the descriptions
C27_NoItemInTwoSlots ==
    Resolved => NoItemTwice(resolved)

\* the fallback half of C27: the assembler's slots are filled from
\* disjoint buckets, so no item is held twice
FallbackNoItemTwice ==
    FallbackReturned => NoItemTwice(result.outfit)

-----------------------------------------------------------------------------
(* The loop agent: schedule_daily_outfit, start_loop, stop_loop *)

MaxTasks == 2
MaxLoopRuns == 2
MaxDays == 2
\* the scale of the clock: ticks in a minute, minutes in an hour, hours
\* in a day
TicksPerMinute == 2
MinutesPerHour == 2
HoursPerDay == 2

TicksPerHour == TicksPerMinute * MinutesPerHour
TicksPerDay == TicksPerHour * HoursPerDay
MaxClock == MaxDays * TicksPerDay - 1

\* datetime.now() when the clock shows t
DateTime(t) ==
    [date |-> t \div TicksPerDay,
     hour |-> (t % TicksPerDay) \div TicksPerHour,
     minute |-> (t % TicksPerHour) \div TicksPerMinute,
     tick |-> t % TicksPerMinute]

\* datetime.isoformat(): the fields as text, date first
IsoFormat(dt) == <<dt.date, dt.hour, dt.minute, dt.tick>>

\* datetime.fromisoformat(text).date()
DateOfIso(text) == text[1]

\* time_str.split(':') of the strings handed to schedule_daily_outfit
TimeStrings ==
    {<<"00", "00">>, <<"00", "01">>, <<"01", "00">>, <<"01", "01">>,
     <<"7am">>, <<"00", "01", "30">>}

IsInt(part) == part \in {"00", "01", "30"}

IntOf(part) == CASE part = "00" -> 0 [] part = "01" -> 1 [] part = "30" -> 30

\* hour, minute = map(int, time_str.split(':')) raises
TimeStrRaises(parts) == Len(parts) # 2 \/ \E k \in 1..Len(parts) : ~IsInt(parts[k])

\* the task dict of lines 39-47
NewTask(parts) ==
    [name |-> "daily_outfit", hour |-> IntOf(parts[1]), minute |-> IntOf(parts[2]),
     last_run |-> <<>>, enabled |-> TRUE]

\* schedule_daily_outfit lines 23-68
ScheduleDailyOutfit ==
    /\ loop_pc \in {"stopped", "sleep"}
    /\ Len(tasks) < MaxTasks
    /\ \E parts \in TimeStrings :
          tasks' = IF TimeStrRaises(parts) THEN tasks ELSE Append(tasks, NewTask(parts))
    /\ UNCHANGED <<clock, running, loop_pc, current_time, task_index, executed, loop_run>>
    /\ UNCHANGED engineVars

\* start_loop lines 179-180
StartLoop ==
    /\ loop_pc = "stopped"
    /\ loop_run < MaxLoopRuns
    /\ loop_run' = loop_run + 1
    /\ running' = TRUE
    /\ loop_pc' = "while"
    /\ UNCHANGED <<clock, tasks, current_time, task_index, executed>>
    /\ UNCHANGED engineVars

\* lines 183-184: the test of the while loop and the reading of the clock
WhileRunning ==
    /\ loop_pc = "while"
    /\ IF running
       THEN /\ current_time' = DateTime(clock)
            /\ task_index' = 1
            /\ loop_pc' = "for"
       ELSE /\ loop_pc' = "stopped"
            /\ UNCHANGED <<current_time, task_index>>
    /\ UNCHANGED <<clock, tasks, running, executed, loop_run>>
    /\ UNCHANGED engineVars

\* lines 192-193: it is the task's minute
IsDue(task, dt) == dt.hour = task.hour /\ dt.minute = task.minute

\* the test of last_run left out
AlreadyRunNever(task, dt) == FALSE

\* lines 196-200: the task has run on the day of this check
AlreadyRunToday(task, dt) ==
    Len(task.last_run) > 0 /\ DateOfIso(task.last_run) = dt.date

\* the ticks a callback may take
CallbackTicks == 0..1

\* lines 187-205: one pass of the for loop. The callback returns, raises
\* (the exception leaves start_loop) or is interrupted from the keyboard
\* (lines 210-212)
CheckTask ==
    /\ loop_pc = "for"
    /\ task_index <= Len(tasks)
    /\ LET task == tasks[task_index]
       IN  IF task.enabled /\ IsDue(task, current_time)
              /\ ~AlreadyRunToday(task, current_time)
           THEN \E d \in CallbackTicks, outcome \in {"returns", "raises", "interrupt"} :
                   /\ clock + d <= MaxClock
                   /\ clock' = clock + d
                   /\ executed' = Append(executed,
                          [task |-> task_index, date |-> current_time.date,
                           run |-> loop_run, returned |-> outcome = "returns"])
                   /\ IF outcome = "returns"
                      THEN /\ tasks' = [tasks EXCEPT ![task_index].last_run =
                                                        IsoFormat(current_time)]
                           /\ task_index' = task_index + 1
                           /\ UNCHANGED <<loop_pc, running>>
                      ELSE /\ loop_pc' = "stopped"
                           /\ running' = (running /\ outcome = "raises")
                           /\ UNCHANGED <<tasks, task_index>>
           ELSE /\ task_index' = task_index + 1
                /\ UNCHANGED <<clock, tasks, running, loop_pc, executed>>
    /\ UNCHANGED <<current_time, loop_run>>
    /\ UNCHANGED engineVars

\* line 208: time.sleep(check_interval), after the last task
SleepInterval ==
    /\ loop_pc = "for"
    /\ task_index > Len(tasks)
    /\ loop_pc' = "sleep"
    /\ UNCHANGED <<clock, tasks, running, current_time, task_index, executed, loop_run>>
    /\ UNCHANGED engineVars

\* the sleep is over, some ticks later
WakeUp ==
    /\ loop_pc = "sleep"
    /\ \E d \in 1..TicksPerDay :
          /\ clock + d <= MaxClock
          /\ clock' = clock + d
    /\ loop_pc' = "while"
    /\ UNCHANGED <<tasks, running, current_time, task_index, executed, loop_run>>
    /\ UNCHANGED engineVars

\* stop_loop lines 214-223, called while the loop sleeps
StopLoop ==
    /\ loop_pc = "sleep"
    /\ running
    /\ running' = FALSE
    /\ UNCHANGED <<clock, tasks, loop_pc, current_time, task_index, executed, loop_run>>
    /\ UNCHANGED engineVars

\* time passes while no loop runs
TimePasses ==
    /\ loop_pc = "stopped"
    /\ clock < MaxClock
    /\ clock' = clock + 1
    /\ UNCHANGED <<tasks, running, loop_pc, current_time, task_index, executed, loop_run>>
    /\ UNCHANGED engineVars

LoopInit ==
    /\ wardrobe = <<>>
    /\ PlannerIdle
    /\ ToolsIdle
    /\ IngestIdle
    /\ ServicesIdle

LoopNext ==
    \/ ScheduleDailyOutfit
    \/ StartLoop
    \/ WhileRunning
    \/ CheckTask
    \/ SleepInterval
    \/ WakeUp
    \/ StopLoop
    \/ TimePasses

LoopSpec == LoopInit /\ [][LoopNext]_vars

-----------------------------------------------------------------------------
(* Properties of the task loop *)

\* C28: while start_loop runs, the callback of a task is executed at most
\* once per calendar day (the day of the loop check that starts it),
\* however many checks fall inside the task's minute: two executions of a
\* task on one day need a first one that raised and a new start_loop
C28_OncePerDay ==
    /\ [](\A i, j \in 1..Len(executed) :
            (i < j /\ executed[i].task = executed[j].task
                   /\ executed[i].date = executed[j].date)
              => (~executed[i].returned /\ executed[i].run < executed[j].run))
    /\ [][(loop_pc = "for" /\ task_index <= Len(tasks)
             /\ AlreadyRunToday(tasks[task_index], current_time))
            => (executed' = executed /\ task_index' = task_index + 1)]_vars

\* a second check inside the minute of a task that has run today: the
\* task is passed over
C28_Witness ==
    /\ loop_pc = "for" /\ task_index = 2
    /\ IsDue(tasks[1], current_time)
    /\ AlreadyRunToday(tasks[1], current_time)
    /\ IsoFormat(current_time) # tasks[1].last_run
    /\ Len(executed) = 1
    /\ executed[1].returned

-----------------------------------------------------------------------------
(* The session service *)

MaxSessions == 2
\* the last tick of the clock the service is watched at
MaxSessionClock == 5
\* session_timeout, in ticks of the clock
TimeoutTicks == 2

\* keys and values of update_session
SessionKeys == {"outfit_count"}
SessionValues == {1, 2}

\* session ids the callers may hand in: the ids created so far and some
\* that never are
SessionIds == 1..(MaxSessions + 1)

\* the session dict of lines 35-42; data maps a key to its value, 0 if unset
NewSession(t) ==
    [created_at |-> t, last_activity |-> t,
     data |-> [k \in SessionKeys |-> 0], active |-> TRUE]

\* self.sessions[session_id] = session
PutSession(ss, sid, session) ==
    [i \in DOMAIN ss \cup {sid} |-> IF i = sid THEN session ELSE ss[i]]

\* del self.sessions[session_id]
DelSession(ss, sid) == [i \in DOMAIN ss \ {sid} |-> ss[i]]

\* _is_expired without the comparison
IsExpiredNever(session, t) == FALSE

\* _is_expired lines 123-125
IsExpired(session, t) == t - session.last_activity > TimeoutTicks

SessionReturn(op, sid, success, message) ==
    [op |-> op, id |-> sid, success |-> success, message |-> message]

\* create_session lines 23-53: uuid4 gives an id never given before
CreateSession ==
    /\ created < MaxSessions
    /\ created' = created + 1
    /\ sessions' = PutSession(sessions, created + 1, NewSession(clock))
    /\ session_result' = SessionReturn("create_session", created + 1, TRUE,
                                       "Session created successfully")
    /\ UNCHANGED <<clock, loopState, plannerVars, toolVars, ingestVars, prefVars>>

\* get_session lines 55-83
GetSession ==
    /\ \E sid \in SessionIds :
          IF sid \in DOMAIN sessions
          THEN IF IsExpired(sessions[sid], clock)
               THEN /\ sessions' = DelSession(sessions, sid)
                    /\ session_result' = SessionReturn("get_session", sid, FALSE,
                                                       "Session expired")
               ELSE /\ sessions' = [sessions EXCEPT ![sid].last_activity = clock]
                    /\ session_result' = SessionReturn("get_session", sid, TRUE,
                                                       "Session retrieved")
          ELSE /\ session_result' = SessionReturn("get_session", sid, FALSE,
                                                  "Session not found")
               /\ UNCHANGED sessions
    /\ UNCHANGED <<created, clock, loopState, plannerVars, toolVars, ingestVars, prefVars>>

\* update_session lines 85-101
UpdateSession ==
    /\ \E sid \in SessionIds, k \in SessionKeys, v \in SessionValues :
          IF sid \in DOMAIN sessions
          THEN /\ sessions' = [sessions EXCEPT ![sid].data[k] = v,
                                               ![sid].last_activity = clock]
               /\ session_result' = SessionReturn("update_session", sid, TRUE,
                                                  "Session updated")
          ELSE /\ session_result' = SessionReturn("update_session", sid, FALSE,
                                                  "Session not found")
               /\ UNCHANGED sessions
    /\ UNCHANGED <<created, clock, loopState, plannerVars, toolVars, ingestVars, prefVars>>

\* end_session lines 103-121
EndSession ==
    /\ \E sid \in SessionIds :
          IF sid \in DOMAIN sessions
          THEN /\ sessions' = DelSession(sessions, sid)
               /\ session_result' = SessionReturn("end_session", sid, TRUE,
                                                  "Session ended")
          ELSE /\ session_result' = SessionReturn("end_session", sid, FALSE,
                                                  "Session not found")
               /\ UNCHANGED sessions
    /\ UNCHANGED <<created, clock, loopState, plannerVars, toolVars, ingestVars, prefVars>>

\* cleanup_expired lines 127-144
CleanupExpired ==
    /\ sessions' = [i \in {j \in DOMAIN sessions : ~IsExpired(sessions[j], clock)}
                      |-> sessions[i]]
    /\ session_result' = SessionReturn("cleanup_expired", 0, TRUE,
                                       "Removed expired sessions")
    /\ UNCHANGED <<created, clock, loopState, plannerVars, toolVars, ingestVars, prefVars>>

\* time passes between two calls of the service
ClockTicks ==
    /\ clock < MaxSessionClock
    /\ clock' = clock + 1
    /\ UNCHANGED <<loopState, engineVars>>

SessionInit ==
    /\ wardrobe = <<>>
    /\ PlannerIdle
    /\ ToolsIdle
    /\ IngestIdle
    /\ ServicesIdle

SessionNext ==
    \/ CreateSession
    \/ GetSession
    \/ UpdateSession
    \/ EndSession
    \/ CleanupExpired
    \/ ClockTicks

SessionSpec == SessionInit /\ [][SessionNext]_vars

-----------------------------------------------------------------------------
(* Properties of the session service *)

\* the session has been idle for longer than the timeout
Lapsed(sid) == sid \in DOMAIN sessions /\ clock - sessions[sid].last_activity > TimeoutTicks

\* C29: a session that has been idle for longer than the timeout is never
\* again served as a live session: no call makes it live again, get_session
\* for its id fails, and an id that is gone stays gone
C29_LapsedNeverServed ==
    [][\A sid \in SessionIds :
          /\ Lapsed(sid) =>
                /\ (sid \notin DOMAIN sessions' \/ Lapsed(sid)')
                /\ ~(session_result'.op = "get_session" /\ session_result'.id = sid
                       /\ session_result'.success /\ session_result' # session_result)
          /\ (sid <= created /\ sid \notin DOMAIN sessions) => sid \notin DOMAIN sessions'
      ]_vars

-----------------------------------------------------------------------------
(* The personalization agent: update_preferences, get_preferences *)

MaxFeedbacks == 3
MaxFeedbackColors == 2

FeedbackColors == {"red", "blue"}

\* the value of an absent key of the feedback dict
Absent == <<"absent">>

\* lists of at most MaxFeedbackColors colors, repetitions included
FeedbackColorLists ==
    UNION {[1..n -> FeedbackColors] : n \in 0..MaxFeedbackColors}

\* the feedback dicts: 'type' may be missing (neutral), every other key too
Feedbacks ==
    [type : {"positive", "negative", "neutral"},
     colors : FeedbackColorLists \cup {Absent},
     styles : {Absent, <<"casual">>},
     patterns : {Absent, <<"stripes">>},
     combination : BOOLEAN]

Contains(list, x) == \E k \in 1..Len(list) : list[k] = x

\* for x in xs: if x not in list: list.append(x)
RECURSIVE AppendNew(_, _)
AppendNew(list, xs) ==
    IF xs = <<>> THEN list
    ELSE AppendNew(IF Contains(list, Head(xs)) THEN list ELSE Append(list, Head(xs)),
                   Tail(xs))

\* list.remove(x): the first occurrence goes
Remove(list, x) ==
    LET k == CHOOSE i \in 1..Len(list) : list[i] = x /\ \A j \in 1..(i - 1) : list[j] # x
    IN  SubSeq(list, 1, k - 1) \o SubSeq(list, k + 1, Len(list))

\* for x in xs: if x in list: list.remove(x)
RECURSIVE RemoveAll(_, _)
RemoveAll(list, xs) ==
    IF xs = <<>> THEN list
    ELSE RemoveAll(IF Contains(list, Head(xs)) THEN Remove(list, Head(xs)) ELSE list,
                   Tail(xs))

Given(list) == IF list = Absent THEN <<>> ELSE list

\* lines 51-68: positive feedback
Positive(prefs, fb) ==
    [prefs EXCEPT
        !.favorite_colors = AppendNew(@, Given(fb.colors)),
        !.preferred_styles = AppendNew(@, Given(fb.styles)),
        !.successful_combinations = IF fb.combination THEN @ + 1 ELSE @]

\* lines 71-83: negative feedback
Negative(prefs, fb) ==
    [prefs EXCEPT
        !.disliked_colors = AppendNew(@, Given(fb.colors)),
        !.favorite_colors = RemoveAll(@, Given(fb.colors)),
        !.avoided_patterns = AppendNew(@, Given(fb.patterns))]

\* lines 34-87: the preferences after one feedback
Updated(prefs, fb) ==
    LET p == IF fb.type = "positive" THEN Positive(prefs, fb)
             ELSE IF fb.type = "negative" THEN Negative(prefs, fb)
             ELSE prefs
    IN  [p EXCEPT !.feedback_count = @ + 1]

\* update_preferences lines 21-105
UpdatePreferences ==
    /\ memory.preferences.feedback_count < MaxFeedbacks
    /\ \E fb \in Feedbacks :
          /\ memory' = [has_preferences |-> TRUE,
                        preferences |-> Updated(memory.preferences, fb)]
          /\ pref_result' = [op |-> "update_preferences", success |-> TRUE,
                             preferences |-> Updated(memory.preferences, fb)]
    /\ UNCHANGED <<loopVars, sessionVars, plannerVars, toolVars, ingestVars>>

\* get_preferences lines 107-123
GetPreferences ==
    /\ pref_result' = [op |-> "get_preferences", success |-> TRUE,
                       preferences |-> IF memory.has_preferences
                                       THEN memory.preferences
                                       ELSE DefaultPreferences]
    /\ UNCHANGED <<memory, loopVars, sessionVars, plannerVars, toolVars, ingestVars>>

PrefsInit ==
    /\ wardrobe = <<>>
    /\ PlannerIdle
    /\ ToolsIdle
    /\ IngestIdle
    /\ ServicesIdle

PrefsNext ==
    \/ UpdatePreferences
    \/ GetPreferences

PrefsSpec == PrefsInit /\ [][PrefsNext]_vars

-----------------------------------------------------------------------------
(* Properties of the preferences *)

\* C30: after any sequence of update_preferences calls no color is in
\* favorite_colors and in disliked_colors at once
C30_FavoritesAndDislikesDisjoint ==
    \A c \in FeedbackColors :
        ~(Contains(memory.preferences.favorite_colors, c)
            /\ Contains(memory.preferences.disliked_colors, c))

====
